---- MODULE Spec2Model ----
(***************************************************************************)
(* Model of the orthoseg prediction pipeline:                              *)
(*   - predict (segment.py): the batch driver with its ledger              *)
(*     images_done.txt;                                                    *)
(*   - clean_prediction, clean_and_save_prediction,                        *)
(*     polygonize_pred_multiclass (orthoseg/lib/postprocess_predictions.py)*)
(* Arrays are records; a float32 pixel is the numerator of a fraction over *)
(* FloatGrid, a uint8 pixel is a number 0..255.                            *)
(***************************************************************************)
EXTENDS Integers, Sequences, FiniteSets, TLC

\* ------------------------------------------------------------------------
\* Bounds of the model
\* ------------------------------------------------------------------------
\* largest number of rows and of columns of an array handed to clean_prediction
MaxDim == 3
\* largest border_pixels_to_ignore tried (larger than MaxDim: the whole array)
MaxBorder == 4
\* length of the longest pixel pattern an input array is filled with
MaxPalette == 2

\* ------------------------------------------------------------------------
\* Program constants
\* ------------------------------------------------------------------------
\* float32 pixels are k / FloatGrid; a power of two, so that k / FloatGrid and
\* (k / FloatGrid) * 255 are exact in float32
FloatGrid == 512
\* image_pred_arr * 255
Scale255 == 255
\* image_pred_uint8 >= 127 in clean_prediction
BinaryThreshold == 127
\* the value a pixel at or above the threshold gets
White == 255
\* min_pixelvalue_for_save: int = 127
DefaultMinPixelvalueForSave == 127
\* to_binary_uint8(image_pred_uint8_cleaned_curr, 125)
PolygonizeThreshold == 125

Max(a, b) == IF a > b THEN a ELSE b

\* ------------------------------------------------------------------------
\* numpy arrays
\* ------------------------------------------------------------------------
\* A one-channel array: dtype, ndim (2: shape (dim0, dim1); 3: shape
\* (dim0, dim1, nch)), and its pixels px[<<r, c>>] for nch = 1.
Array(dtype, ndim, dim0, dim1, nch, px) ==
    [dtype |-> dtype, ndim |-> ndim, dim0 |-> dim0, dim1 |-> dim1,
     nch |-> nch, px |-> px]

Indices(a) == (0 .. a.dim0 - 1) \X (0 .. a.dim1 - 1)

\* Python's slice 0:b over an axis of length n
HeadSlice(b, n) == {k \in 0 .. n - 1 : k < b}

\* Python's slice -b: over an axis of length n; -0 is 0, so -0: is the whole axis
TailSlice(b, n) ==
    IF b = 0 THEN 0 .. n - 1
    ELSE {k \in 0 .. n - 1 : k >= Max(n - b, 0)}

\* np.array(image_pred_arr * 255, dtype=np.uint8) for one pixel: the product
\* is exact in float32, the cast to uint8 drops the fraction
AsUint8(k) == (k * Scale255) \div FloatGrid

\* arr[arr >= t] = 255 ; arr[arr < t] = 0, on a pixel function
ThresholdPx(px, t) ==
    LET step1 == [i \in DOMAIN px |-> IF px[i] >= t THEN White ELSE px[i]]
    IN  [i \in DOMAIN px |-> IF step1[i] < t THEN 0 ELSE step1[i]]

\* The four border assignments of clean_prediction, in their order
BlankBorderPx(px, dim0, dim1, b) ==
    LET left   == [i \in DOMAIN px |->
                      IF i[1] \in HeadSlice(b, dim0) THEN 0 ELSE px[i]]
        right  == [i \in DOMAIN px |->
                      IF i[1] \in TailSlice(b, dim0) THEN 0 ELSE left[i]]
        top    == [i \in DOMAIN px |->
                      IF i[2] \in HeadSlice(b, dim1) THEN 0 ELSE right[i]]
        bottom == [i \in DOMAIN px |->
                      IF i[2] \in TailSlice(b, dim1) THEN 0 ELSE top[i]]
    IN  bottom

\* if border_pixels_to_ignore and border_pixels_to_ignore > 0:
BorderGuard_NoGuard(b) == TRUE
BorderGuard(b) == b # 0 /\ b > 0

Raise(msg) == [ok |-> FALSE, err |-> msg]
Return(v) == [ok |-> TRUE, val |-> v]

\* the conversion branch of clean_prediction, float32 input
ConvertFloat32(a) ==
    [a EXCEPT !.dtype = "uint8",
              !.px = [i \in DOMAIN a.px |-> AsUint8(a.px[i])]]

\* the binary branch of clean_prediction
ToBinary_OnlyUpper(a) ==
    [a EXCEPT !.px = [i \in DOMAIN a.px |->
                         IF a.px[i] >= BinaryThreshold THEN White ELSE a.px[i]]]
ToBinary(a) == [a EXCEPT !.px = ThresholdPx(a.px, BinaryThreshold)]

\* the border branch of clean_prediction
BlankBorder(a, b) == [a EXCEPT !.px = BlankBorderPx(a.px, a.dim0, a.dim1, b)]

\* clean_prediction without the check of the number of channels
clean_prediction_NoChannelCheck(image_pred_arr, border_pixels_to_ignore, output_color_depth) ==
    IF image_pred_arr.dtype \notin {"float32", "uint8"}
    THEN Raise("image prediction is in an unsupported type")
    ELSE IF output_color_depth \notin {"binary", "full"}
    THEN Raise("Unsupported output_color_depth")
    ELSE
      LET image_pred_uint8 ==
              IF image_pred_arr.dtype = "float32"
              THEN ConvertFloat32(image_pred_arr)
              ELSE image_pred_arr
          thresholded ==
              IF output_color_depth = "binary"
              THEN ToBinary(image_pred_uint8)
              ELSE image_pred_uint8
          image_pred_uint8_cropped ==
              IF BorderGuard(border_pixels_to_ignore)
              THEN BlankBorder(thresholded, border_pixels_to_ignore)
              ELSE thresholded
      IN  Return(image_pred_uint8_cropped)

\* clean_prediction: the returned value, or the exception raised.
\* The array reshaped at line 721 is overwritten at lines 725/727 by an array
\* made from image_pred_arr, so the result keeps the input's ndim.
clean_prediction(image_pred_arr, border_pixels_to_ignore, output_color_depth) ==
    IF image_pred_arr.dtype \notin {"float32", "uint8"}
    THEN Raise("image prediction is in an unsupported type")
    ELSE IF output_color_depth \notin {"binary", "full"}
    THEN Raise("Unsupported output_color_depth")
    ELSE IF image_pred_arr.ndim > 2 /\ image_pred_arr.nch > 1
    THEN Raise("Invalid input, should be one channel!")
    ELSE
      LET image_pred_uint8 ==
              IF image_pred_arr.dtype = "float32"
              THEN ConvertFloat32(image_pred_arr)
              ELSE image_pred_arr
          thresholded ==
              IF output_color_depth = "binary"
              THEN ToBinary(image_pred_uint8)
              ELSE image_pred_uint8
          image_pred_uint8_cropped ==
              IF BorderGuard(border_pixels_to_ignore)
              THEN BlankBorder(thresholded, border_pixels_to_ignore)
              ELSE thresholded
      IN  Return(image_pred_uint8_cropped)

\* The array passed to clean_prediction as the caller finds it after the call.
\* For uint8 input image_pred_uint8 is image_pred_arr itself (line 727), so
\* the assignments of lines 731-732 and 737-740 write into the caller's
\* array; for float32 input line 725 makes a new array. An exception is
\* raised before any assignment.
ArgumentAfter(image_pred_arr, border_pixels_to_ignore, output_color_depth) ==
    LET r == clean_prediction(image_pred_arr, border_pixels_to_ignore,
                              output_color_depth)
    IN  IF r.ok /\ image_pred_arr.dtype = "uint8" THEN r.val ELSE image_pred_arr

\* ------------------------------------------------------------------------
\* Inputs of clean_prediction
\* ------------------------------------------------------------------------
\* float32 numerators: 0.0, 254/512 (-> 126), 255/512 (-> 127), 1.0
FloatVals == {0, 254, 255, FloatGrid}
Uint8Vals == {0, 126, 127, 255}

PixelVals(dtype) == IF dtype = "float32" THEN FloatVals ELSE Uint8Vals

Palettes(dtype) ==
    UNION {[1 .. n -> PixelVals(dtype)] : n \in 1 .. MaxPalette}

\* the array of the given shape filled row by row with the palette, repeated
Filled(dtype, ndim, dim0, dim1, pal) ==
    Array(dtype, ndim, dim0, dim1, 1,
          [i \in (0 .. dim0 - 1) \X (0 .. dim1 - 1) |->
              pal[((i[1] * dim1 + i[2]) % Len(pal)) + 1]])

ValidArrays ==
    {Filled(dt, nd, d0, d1, pal) :
        <<dt, nd, d0, d1, pal>> \in
            {<<dt, nd, d0, d1, pal>> \in
                {"float32", "uint8"} \X {2, 3} \X (1 .. MaxDim) \X (1 .. MaxDim)
                    \X (Palettes("float32") \cup Palettes("uint8")) :
                pal \in Palettes(dt)}}

\* Arrays clean_prediction has to refuse: another dtype (float64), or 3-D
\* with two channels
OtherDtype(a) == [a EXCEPT !.dtype = "float64"]

TwoChannels(a) == [a EXCEPT !.ndim = 3, !.nch = 2]

InvalidArrays ==
    {OtherDtype(a) : a \in ValidArrays}
        \cup {TwoChannels(a) : a \in {v \in ValidArrays : v.ndim = 3}}
        \cup {OtherDtype(TwoChannels(a)) : a \in {v \in ValidArrays : v.ndim = 3}}

\* the values tried for output_color_depth
AnyDepths == {"binary", "full", "gray"}

\* ------------------------------------------------------------------------
\* Multi-channel predictions and their post-processing
\* ------------------------------------------------------------------------
\* A prediction of the model for one tile: float32, shape (dim0, dim1, nb
\* channels); chans[c + 1] holds the pixels of channel c.
Prediction(dim0, dim1, chans) == [dim0 |-> dim0, dim1 |-> dim1, chans |-> chans]

\* image_pred_arr[:,:,channel_id]
ChannelSlice(image_pred_arr, channel_id) ==
    Array("float32", 2, image_pred_arr.dim0, image_pred_arr.dim1, 1,
          image_pred_arr.chans[channel_id + 1])

\* np.any(arr > v)
AnyAtLeast_Strict(a, v) == \E idx \in DOMAIN a.px : a.px[idx] > v

\* np.any(arr >= v)
AnyAtLeast(a, v) == \E idx \in DOMAIN a.px : a.px[idx] >= v

\* to_binary_uint8: a thresholded copy, or the exception for a wrong dtype
to_binary_uint8(in_arr, thresshold_ok) ==
    IF in_arr.dtype # "uint8"
    THEN Raise("Input should be dtype = uint8")
    ELSE Return([in_arr EXCEPT !.px = ThresholdPx(in_arr.px, thresshold_ok)])

\* the class whose number is one less than the channel
ClassNameOf_Shifted(classes, channel_id) ==
    IF channel_id \in DOMAIN classes THEN classes[channel_id] ELSE "None"

\* the class name clean_and_save_prediction finds for a channel, or "None"
ClassNameOf(classes, channel_id) ==
    IF channel_id + 1 \in DOMAIN classes THEN classes[channel_id + 1] ELSE "None"

\* the condition under which clean_and_save_prediction saves a channel
SaveCondition(cleaned, min_pixelvalue_for_save, evaluate_mode_arg) ==
    \/ min_pixelvalue_for_save = 0
    \/ AnyAtLeast(cleaned, min_pixelvalue_for_save)
    \/ evaluate_mode_arg = TRUE

\* clean_and_save_prediction: the rasters written, as the sequence of
\* [channel, classname] in the order of the loop, or the exception raised.
\* save_prediction_uint8 raises when the transform is missing (None or
\* x-scale 0): transform_ok is FALSE then.
RECURSIVE SaveChannels(_, _, _, _, _, _, _, _)
SaveChannels(image_pred_arr, classes, border, minval, evalmode, transform_ok, channel_id, written) ==
    IF channel_id >= Len(image_pred_arr.chans)
    THEN Return(written)
    ELSE
      LET cleaned == clean_prediction(ChannelSlice(image_pred_arr, channel_id),
                                      border, "binary").val
          class_name == ClassNameOf(classes, channel_id)
      IN  IF SaveCondition(cleaned, minval, evalmode)
          THEN IF class_name = "None"
               THEN Raise("No classname found for channel_id")
               ELSE IF ~transform_ok
               THEN Raise("No transform found")
               ELSE SaveChannels(image_pred_arr, classes, border, minval,
                        evalmode, transform_ok, channel_id + 1,
                        Append(written, [channel |-> channel_id,
                                         classname |-> class_name]))
          ELSE SaveChannels(image_pred_arr, classes, border, minval,
                        evalmode, transform_ok, channel_id + 1, written)

clean_and_save_prediction(image_pred_arr, classes, border_pixels_to_ignore, min_pixelvalue_for_save, evaluate_mode_arg, transform_ok) ==
    LET nb_channels == Len(image_pred_arr.chans)
        channel_start == IF nb_channels > 1 THEN 1 ELSE 0
    IN  SaveChannels(image_pred_arr, classes, border_pixels_to_ignore,
                     min_pixelvalue_for_save, evaluate_mode_arg, transform_ok,
                     channel_start, <<>>)

\* ------------------------------------------------------------------------
\* Polygonization
\* ------------------------------------------------------------------------
\* "no result" (None): a collection always holds a feature
NoResult == [crs |-> "None", features |-> <<>>]

\* the pixels rasterio.features.shapes(image, mask=image) traces: nonzero ones
Foreground(a) == {idx \in DOMAIN a.px : a.px[idx] # 0}

\* adjacency along the rows only
Adjacent4_RowsOnly(p, q) ==
    p[1] = q[1] /\ (p[2] = q[2] + 1 \/ q[2] = p[2] + 1)

\* 4-connectivity, the default of rasterio.features.shapes
Adjacent4(p, q) ==
    \/ p[1] = q[1] /\ (p[2] = q[2] + 1 \/ q[2] = p[2] + 1)
    \/ p[2] = q[2] /\ (p[1] = q[1] + 1 \/ q[1] = p[1] + 1)

ScanBefore(p, q) == p[1] < q[1] \/ (p[1] = q[1] /\ p[2] <= q[2])

RECURSIVE Grow(_, _)
Grow(S, region) ==
    LET next == region \cup {q \in S : \E p \in region : Adjacent4(p, q)}
    IN  IF next = region THEN region ELSE Grow(S, next)

\* the connected regions of S, in scan order of their first pixel
RECURSIVE Regions(_)
Regions(S) ==
    IF S = {} THEN <<>>
    ELSE LET seed == CHOOSE p \in S : \A q \in S : ScanBefore(p, q)
             region == Grow(S, {seed})
         IN  <<region>> \o Regions(S \ region)

Abs(x) == IF x < 0 THEN -x ELSE x

\* An axis-aligned affine transform (a, 0, c, 0, e, f): x = c + a * column,
\* y = f + e * row; image_transform[0] is a, image_transform[4] is e.
Transform(a, e, c, f) == [a |-> a, e |-> e, c |-> c, f |-> f]

\* the area of one pixel in projected units
PixelArea(image_transform) == Abs(image_transform.a * image_transform.e)

\* polygonize_pred that does not set the classname column
polygonize_pred_Untagged(image_pred_uint8_bin, image_crs, image_transform, classname) ==
    LET regions == Regions(Foreground(image_pred_uint8_bin))
    IN  IF Len(regions) = 0 THEN NoResult
        ELSE [crs |-> image_crs,
              features |-> [k \in 1 .. Len(regions) |->
                               [cells |-> regions[k],
                                classname |-> "None",
                                area |-> Cardinality(regions[k])
                                             * PixelArea(image_transform)]]]

\* polygonize_pred without simplification: one feature per connected region
\* of nonzero pixels, or NoResult; the features carry the classname, their
\* area in projected units (the geometry covers the pixels of the region)
\* and the collection the CRS.
polygonize_pred(image_pred_uint8_bin, image_crs, image_transform, classname) ==
    LET regions == Regions(Foreground(image_pred_uint8_bin))
    IN  IF Len(regions) = 0 THEN NoResult
        ELSE [crs |-> image_crs,
              features |-> [k \in 1 .. Len(regions) |->
                               [cells |-> regions[k],
                                classname |-> classname,
                                area |-> Cardinality(regions[k])
                                             * PixelArea(image_transform)]]]

\* the channel loop without the test of the CRS
RECURSIVE PolygonizeChannels_NoCrsCheck(_, _, _, _, _, _, _, _)
PolygonizeChannels_NoCrsCheck(image_pred_arr, image_crs, image_transform, minval, classes, border, channel_id, result_gdf) ==
    IF channel_id >= Len(image_pred_arr.chans)
    THEN Return(result_gdf)
    ELSE
      LET cleaned == clean_prediction(ChannelSlice(image_pred_arr, channel_id),
                                      border, "binary").val
          rest(r) == PolygonizeChannels_NoCrsCheck(image_pred_arr, image_crs, image_transform,
                                        minval, classes, border, channel_id + 1, r)
      IN  IF minval > 0 /\ ~AnyAtLeast(cleaned, minval)
          THEN rest(result_gdf)
          ELSE IF channel_id + 1 \notin DOMAIN classes
          THEN Raise("IndexError: classes[channel_id]")
          ELSE
            LET bin == to_binary_uint8(cleaned, PolygonizeThreshold).val
                result_channel_gdf ==
                    polygonize_pred(bin, image_crs, image_transform,
                                    classes[channel_id + 1])
            IN  IF result_channel_gdf = NoResult
                THEN rest(result_gdf)
                ELSE IF result_gdf = NoResult
                THEN rest(result_channel_gdf)
                ELSE rest([crs |-> result_gdf.crs,
                           features |-> result_gdf.features
                                           \o result_channel_gdf.features])

\* the channel loop keeping only the result of the last channel with features
RECURSIVE PolygonizeChannels_KeepsLast(_, _, _, _, _, _, _, _)
PolygonizeChannels_KeepsLast(image_pred_arr, image_crs, image_transform, minval, classes, border, channel_id, result_gdf) ==
    IF channel_id >= Len(image_pred_arr.chans)
    THEN Return(result_gdf)
    ELSE
      LET cleaned == clean_prediction(ChannelSlice(image_pred_arr, channel_id),
                                      border, "binary").val
          rest(r) == PolygonizeChannels_KeepsLast(image_pred_arr, image_crs, image_transform,
                                        minval, classes, border, channel_id + 1, r)
      IN  IF minval > 0 /\ ~AnyAtLeast(cleaned, minval)
          THEN rest(result_gdf)
          ELSE IF channel_id + 1 \notin DOMAIN classes
          THEN Raise("IndexError: classes[channel_id]")
          ELSE
            LET bin == to_binary_uint8(cleaned, PolygonizeThreshold).val
                result_channel_gdf ==
                    polygonize_pred(bin, image_crs, image_transform,
                                    classes[channel_id + 1])
            IN  IF result_channel_gdf = NoResult
                THEN rest(result_gdf)
                ELSE IF result_gdf = NoResult
                THEN IF result_channel_gdf.crs = "None"
                     THEN Raise("STOP: input does not have a crs!")
                     ELSE rest(result_channel_gdf)
                ELSE rest(result_channel_gdf)

\* the loop of polygonize_pred_multiclass from channel_id on
RECURSIVE PolygonizeChannels(_, _, _, _, _, _, _, _)
PolygonizeChannels(image_pred_arr, image_crs, image_transform, minval, classes, border, channel_id, result_gdf) ==
    IF channel_id >= Len(image_pred_arr.chans)
    THEN Return(result_gdf)
    ELSE
      LET cleaned == clean_prediction(ChannelSlice(image_pred_arr, channel_id),
                                      border, "binary").val
          rest(r) == PolygonizeChannels(image_pred_arr, image_crs, image_transform,
                                        minval, classes, border, channel_id + 1, r)
      IN  IF minval > 0 /\ ~AnyAtLeast(cleaned, minval)
          THEN rest(result_gdf)
          ELSE IF channel_id + 1 \notin DOMAIN classes
          THEN Raise("IndexError: classes[channel_id]")
          ELSE
            LET bin == to_binary_uint8(cleaned, PolygonizeThreshold).val
                result_channel_gdf ==
                    polygonize_pred(bin, image_crs, image_transform,
                                    classes[channel_id + 1])
            IN  IF result_channel_gdf = NoResult
                THEN rest(result_gdf)
                ELSE IF result_gdf = NoResult
                THEN IF result_channel_gdf.crs = "None"
                     THEN Raise("STOP: input does not have a crs!")
                     ELSE rest(result_channel_gdf)
                ELSE rest([crs |-> result_gdf.crs,
                           features |-> result_gdf.features
                                           \o result_channel_gdf.features])

polygonize_pred_multiclass(image_pred_arr, image_crs, image_transform, min_pixelvalue_for_save, classes, border_pixels_to_ignore) ==
    PolygonizeChannels(image_pred_arr, image_crs, image_transform,
                       min_pixelvalue_for_save, classes,
                       border_pixels_to_ignore, 0, NoResult)

\* ---- vector files ----------------------------------------------------------
\* The vector files of a directory: the rows each file holds, by path.
NoVectorFiles == <<>>

\* geofile.to_file(gdf, path, append=...), library code: the rows of gdf are
\* written to the file; with append they are added after the rows the file
\* holds, without it the file is written anew.
to_file(fs, path, gdf, append) ==
    [n \in DOMAIN fs \cup {path} |->
        IF n # path THEN fs[n]
        ELSE IF append /\ path \in DOMAIN fs THEN fs[path] \o gdf.features
        ELSE gdf.features]

\* polygonize_pred_multiclass_to_file: the exception of
\* polygonize_pred_multiclass, or True with the rows appended to
\* output_vector_path, or False when there is no polygon; and the vector
\* files after the call
polygonize_pred_multiclass_to_file(fs, image_pred_arr, image_crs, image_transform, min_pixelvalue_for_save, classes, output_vector_path, border_pixels_to_ignore) ==
    LET result_gdf == polygonize_pred_multiclass(image_pred_arr, image_crs,
                          image_transform, min_pixelvalue_for_save, classes,
                          border_pixels_to_ignore)
    IN  IF ~result_gdf.ok
        THEN [result |-> result_gdf, fs |-> fs]
        ELSE IF result_gdf.val # NoResult
        THEN [result |-> Return(TRUE),
              fs |-> to_file(fs, output_vector_path, result_gdf.val, TRUE)]
        ELSE [result |-> Return(FALSE), fs |-> fs]

\* ---- failures inside polygonize_pred ---------------------------------------
\* The statements of the try block that call into a library: the contour
\* tracing (rio_features.shapes), the simplification (simplify_ext), the
\* attribute computation (calc_onborder, area), the writing of the rows
\* (geofile.to_file). A failure is an exception raised by one of them;
\* "none": none fails.
FailureStages == {"shapes", "simplify", "attributes", "to_file"}

\* raise Exception(f"Exception while polygonizing to file
\* {output_basefilepath}") from ex
PolygonizationError(output_basefilepath, cause) ==
    [ok |-> FALSE,
     err |-> "Exception while polygonizing to file",
     file |-> output_basefilepath,
     cause |-> cause]

\* get_pixelsize_x, get_pixelsize_y
get_pixelsize_x(transform) == transform.a

get_pixelsize_y(transform) == -transform.e

\* rasterio.transform.array_bounds(height, width, transform):
\* (west, south, east, north) of a raster of height rows and width columns
array_bounds(height, width, transform) ==
    <<transform.c, transform.f + transform.e * height,
      transform.c + transform.a * width, transform.f>>

\* border_bounds of polygonize_pred: shape[0] is taken as the width and
\* shape[1] as the height of the raster
BorderBounds(image_pred_uint8_bin, image_transform, border_pixels_to_ignore) ==
    LET image_width == image_pred_uint8_bin.dim0
        image_height == image_pred_uint8_bin.dim1
        image_bounds == array_bounds(image_height, image_width, image_transform)
        x_pixsize == get_pixelsize_x(image_transform)
        y_pixsize == get_pixelsize_y(image_transform)
    IN  <<image_bounds[1] + border_pixels_to_ignore * x_pixsize,
          image_bounds[2] + border_pixels_to_ignore * y_pixsize,
          image_bounds[3] - border_pixels_to_ignore * x_pixsize,
          image_bounds[4] - border_pixels_to_ignore * y_pixsize>>

\* the pixels that touch the grid corner p = <<row, column>>
CornerCells(p) ==
    {<<p[1] - 1, p[2] - 1>>, <<p[1] - 1, p[2]>>, <<p[1], p[2] - 1>>, <<p[1], p[2]>>}

\* the outline of the region turns at the grid corner p
IsVertex(region, p) ==
    LET n == Cardinality(CornerCells(p) \cap region)
    IN  \/ n \in {1, 3}
        \/ n = 2 /\ (<<p[1] - 1, p[2] - 1>> \in region <=> <<p[1], p[2]>> \in region)

\* the transform applied to the grid corner <<row, column>>
Project(transform, p) ==
    <<transform.c + transform.a * p[2], transform.f + transform.e * p[1]>>

\* the vertices of the polygon rio_features.shapes traces around a region
Vertices(region, dim0, dim1, transform) ==
    {Project(transform, p) :
        p \in {q \in (0 .. dim0) \X (0 .. dim1) : IsVertex(region, q)}}

Between(v, p, q) == (p <= v /\ v <= q) \/ (q <= v /\ v <= p)

\* the point v lies on sh_geom.box(*bounds).exterior
OnBox(v, bounds) ==
    \/ v[1] \in {bounds[1], bounds[3]} /\ Between(v[2], bounds[2], bounds[4])
    \/ v[2] \in {bounds[2], bounds[4]} /\ Between(v[1], bounds[1], bounds[3])

\* The passages of the rings of a polygon through the grid corner p, each
\* named by the one cell of the four around p whose two sides the ring
\* follows there: the only pixel of the region for a corner that sticks
\* out, the only pixel outside it for a corner that goes in, and each of
\* the two pixels of the region where two of them touch by the corner only.
CornerTurns(region, p) ==
    LET around == CornerCells(p) \cap region
    IN  IF ~IsVertex(region, p) THEN {}
        ELSE IF Cardinality(around) = 3 THEN CornerCells(p) \ region
        ELSE around

\* the grid steps from the corner p along the outline in direction d to the
\* next vertex
RECURSIVE StepsToVertex(_, _, _, _)
StepsToVertex(region, p, d, limit) ==
    LET q == <<p[1] + d[1], p[2] + d[2]>>
    IN  IF limit <= 1 \/ IsVertex(region, q)
        THEN 1
        ELSE 1 + StepsToVertex(region, q, d, limit - 1)

\* A number of halves as a fraction: geometry.area of a polygon with a
\* vertex dropped need not be whole.
Half(twice) ==
    IF twice % 2 = 0
    THEN [num |-> twice \div 2, den |-> 1]
    ELSE [num |-> twice, den |-> 2]

\* twice the area of the triangle between the vertex of the passage (p,
\* cell) and the two vertices next to it on the ring, in projected units
TwiceTriangle(region, dim0, dim1, transform, p, cell) ==
    LET dr == IF cell[1] = p[1] THEN 1 ELSE -1
        dc == IF cell[2] = p[2] THEN 1 ELSE -1
    IN  StepsToVertex(region, p, <<dr, 0>>, dim0)
            * StepsToVertex(region, p, <<0, dc>>, dim1)
            * PixelArea(transform)

\* the geometry rio_features.shapes traces around a region: not empty, its
\* vertices, its area
TracedGeometry(region, dim0, dim1, transform) ==
    [empty |-> FALSE,
     vertices |-> Vertices(region, dim0, dim1, transform),
     area |-> Half(2 * Cardinality(region) * PixelArea(transform))]

\* gfo_vector_util.simplify_ext(geometry, algorythm, tolerance,
\* keep_points_on), library code: the geometries it may return. It keeps
\* the vertices on keep_points_on; it returns the geometry as it is, or
\* with one vertex dropped from a ring (the area, computed from the rings,
\* loses the triangle at a corner that sticks out and gains it at a corner
\* that goes in), or, when no vertex has to be kept, an empty geometry.
simplify_ext(region, dim0, dim1, transform, keep_points_on) ==
    LET traced == TracedGeometry(region, dim0, dim1, transform)
        free == {p \in (0 .. dim0) \X (0 .. dim1) :
                    /\ IsVertex(region, p)
                    /\ ~OnBox(Project(transform, p), keep_points_on)}
        dropped(p, cell) ==
            LET triangle == TwiceTriangle(region, dim0, dim1, transform, p, cell)
                twice == 2 * Cardinality(region) * PixelArea(transform)
            IN  [empty |-> FALSE,
                 vertices |-> IF Cardinality(CornerTurns(region, p)) = 1
                              THEN traced.vertices \ {Project(transform, p)}
                              ELSE traced.vertices,
                 area |-> Half(IF cell \in region
                               THEN twice - triangle
                               ELSE twice + triangle)]
    IN  {traced}
            \cup UNION {{dropped(p, cell) : cell \in CornerTurns(region, p)} :
                           p \in free}
            \cup (IF \A v \in traced.vertices : ~OnBox(v, keep_points_on)
                   THEN {[empty |-> TRUE, vertices |-> {}, area |-> Half(0)]}
                   ELSE {})

\* geoms_gdf.geometry.apply(lambda geom: simplify_ext(...)) on the first k
\* rows: the sequences of geometries the calls may return, options[j] being
\* what the call for row j may return
RECURSIVE Apply(_, _)
Apply(options, k) ==
    IF k = 0
    THEN {<<>>}
    ELSE {Append(done, geom) : done \in Apply(options, k - 1),
                               geom \in options[k]}

\* polygonize_pred with a simplify_algorythm in prediction_cleanup_params:
\* the outcomes it may have, simplify_ext being applied to every polygon.
\* result: None, or the collection, its area column computed from the
\* simplified geometries and the rows of empty geometries removed;
\* simplified: the vertices simplify_ext returned for each traced polygon.
polygonize_pred_simplified(image_pred_uint8_bin, image_crs, image_transform, classname, border_pixels_to_ignore) ==
    LET traced == polygonize_pred(image_pred_uint8_bin, image_crs,
                                  image_transform, classname)
        dim0 == image_pred_uint8_bin.dim0
        dim1 == image_pred_uint8_bin.dim1
        border_bounds == BorderBounds(image_pred_uint8_bin, image_transform,
                                      border_pixels_to_ignore)
        rows == DOMAIN traced.features
        options == [k \in rows |->
                       simplify_ext(traced.features[k].cells, dim0, dim1,
                                    image_transform, border_bounds)]
        outcome(geoms) ==
            LET left == SelectSeq([j \in rows |-> j],
                                  LAMBDA j : ~geoms[j].empty)
                kept == [n \in DOMAIN left |->
                            [cells |-> traced.features[left[n]].cells,
                             classname |-> classname,
                             area |-> geoms[left[n]].area]]
            IN  [result |-> IF kept = <<>> THEN NoResult
                            ELSE [crs |-> image_crs, features |-> kept],
                 simplified |-> [j \in rows |-> geoms[j].vertices]]
    IN  IF traced = NoResult
        THEN {[result |-> NoResult, simplified |-> <<>>]}
        ELSE {outcome(geoms) : geoms \in Apply(options, Len(traced.features))}

\* Path(f"{str(output_basefilepath)}_pred_cleaned_2.geojson")
GeomFilepath(output_basefilepath) ==
    [base |-> output_basefilepath, tail |-> "_pred_cleaned_2.geojson"]

\* an exception, not a collection nor None
IsError(r) == "ok" \in DOMAIN r

\* polygonize_pred with its try block: the outcomes it may have, each the
\* value returned, or the exception raised by the except clause when the
\* statement named by failure is reached and fails, and the vector files
\* after the call. output_basefilepath is "None" when the caller gives
\* none; simplify: prediction_cleanup_params asks for a simplification.
polygonize_pred_try(fs, image_pred_uint8_bin, image_crs, image_transform, classname, output_basefilepath, simplify, border_pixels_to_ignore, failure) ==
    LET traced == polygonize_pred(image_pred_uint8_bin, image_crs,
                                  image_transform, classname)
        raised == [result |-> PolygonizationError(output_basefilepath, failure),
                   fs |-> fs]
        results ==
            IF simplify
            THEN {o.result : o \in polygonize_pred_simplified(
                                      image_pred_uint8_bin, image_crs,
                                      image_transform, classname,
                                      border_pixels_to_ignore)}
            ELSE {traced}
    IN  IF failure = "shapes"
        THEN {raised}
        ELSE IF traced = NoResult
        THEN {[result |-> NoResult, fs |-> fs]}
        ELSE IF failure = "simplify" /\ simplify
        THEN {raised}
        ELSE {IF geoms_gdf = NoResult
              THEN [result |-> NoResult, fs |-> fs]
              ELSE IF failure = "attributes"
              THEN raised
              ELSE IF output_basefilepath = "None"
              THEN [result |-> geoms_gdf, fs |-> fs]
              ELSE IF failure = "to_file"
              THEN raised
              ELSE [result |-> geoms_gdf,
                    fs |-> to_file(fs, GeomFilepath(output_basefilepath),
                                   geoms_gdf, FALSE)] :
                 geoms_gdf \in results}

\* The loop of polygonize_pred_multiclass from channel_id on when a
\* statement of polygonize_pred fails for the channel failing_channel: the
\* call of polygonize_pred (506-512) gives no output_basefilepath and is in
\* no try block, so the exception leaves polygonize_pred_multiclass as it
\* is.
RECURSIVE PolygonizeChannelsTry(_, _, _, _, _, _, _, _, _, _, _)
PolygonizeChannelsTry(image_pred_arr, image_crs, image_transform, minval, classes, border, simplify, failing_channel, failure, channel_id, result_gdf) ==
    IF channel_id >= Len(image_pred_arr.chans)
    THEN {Return(result_gdf)}
    ELSE
      LET cleaned == clean_prediction(ChannelSlice(image_pred_arr, channel_id),
                                      border, "binary").val
          rest(r) == PolygonizeChannelsTry(image_pred_arr, image_crs,
                         image_transform, minval, classes, border, simplify,
                         failing_channel, failure, channel_id + 1, r)
          tried == polygonize_pred_try(NoVectorFiles,
                       to_binary_uint8(cleaned, PolygonizeThreshold).val,
                       image_crs, image_transform, classes[channel_id + 1],
                       "None", simplify, border,
                       IF channel_id = failing_channel THEN failure ELSE "none")
          next(result_channel_gdf) ==
              IF IsError(result_channel_gdf)
              THEN {result_channel_gdf}
              ELSE IF result_channel_gdf = NoResult
              THEN rest(result_gdf)
              ELSE IF result_gdf = NoResult
              THEN IF result_channel_gdf.crs = "None"
                   THEN {Raise("STOP: input does not have a crs!")}
                   ELSE rest(result_channel_gdf)
              ELSE rest([crs |-> result_gdf.crs,
                         features |-> result_gdf.features
                                         \o result_channel_gdf.features])
      IN  IF minval > 0 /\ ~AnyAtLeast(cleaned, minval)
          THEN rest(result_gdf)
          ELSE IF channel_id + 1 \notin DOMAIN classes
          THEN {Raise("IndexError: classes[channel_id]")}
          ELSE UNION {next(o.result) : o \in tried}

\* polygonize_pred_multiclass when a statement of polygonize_pred fails for
\* one channel: the outcomes it may have
polygonize_pred_multiclass_try(image_pred_arr, image_crs, image_transform, min_pixelvalue_for_save, classes, border_pixels_to_ignore, simplify, failing_channel, failure) ==
    PolygonizeChannelsTry(image_pred_arr, image_crs, image_transform,
        min_pixelvalue_for_save, classes, border_pixels_to_ignore, simplify,
        failing_channel, failure, 0, NoResult)

\* A raster file with one band: whether rio.open can read it, and the array
\* image_ds.read() returns for it.
RasterFile(readable, crs, transform, data) ==
    [readable |-> readable, crs |-> crs, transform |-> transform, data |-> data]

\* raise Exception(f"Error in polygonize_pred_from_file on
\* {image_pred_filepath}") from ex
FromFileError(image_pred_filepath, cause) ==
    [ok |-> FALSE,
     err |-> "Error in polygonize_pred_from_file on",
     file |-> image_pred_filepath,
     cause |-> cause]

\* polygonize_pred_from_file: the outcomes it may have. The band read is
\* made binary with the threshold 125 and polygonized without classname and
\* without prediction_cleanup_params; with save_to_file the rows are written
\* next to the raster, output_basefilepath being its path without the
\* extension. Every exception, the one of polygonize_pred too, is raised
\* again as the exception of this function.
polygonize_pred_from_file(fs, image_pred_file, image_pred_filepath, border_pixels_to_ignore, save_to_file, failure) ==
    LET image_pred_uint8_bin ==
            to_binary_uint8(image_pred_file.data, PolygonizeThreshold)
        output_basefilepath ==
            IF save_to_file = TRUE THEN image_pred_filepath ELSE "None"
        wrap(o) == IF IsError(o.result)
                   THEN [result |-> FromFileError(image_pred_filepath, o.result),
                         fs |-> o.fs]
                   ELSE o
    IN  IF ~image_pred_file.readable
        THEN {[result |-> FromFileError(image_pred_filepath, "rio.open"),
               fs |-> fs]}
        ELSE IF ~image_pred_uint8_bin.ok
        THEN {[result |-> FromFileError(image_pred_filepath,
                                        image_pred_uint8_bin),
               fs |-> fs]}
        ELSE {wrap(o) : o \in polygonize_pred_try(fs, image_pred_uint8_bin.val,
                                 image_pred_file.crs, image_pred_file.transform, "None",
                                 output_basefilepath, FALSE,
                                 border_pixels_to_ignore, failure)}

\* ------------------------------------------------------------------------
\* The files of an output directory
\* ------------------------------------------------------------------------
\* The prefix of a file name: none, or a number written with 3 decimals and
\* an underscore, kept in thousandths; minus: the text starts with "-"
\* ("-0.000_" has milli 0).
NoPrefix == [set |-> FALSE, milli |-> 0, minus |-> FALSE]

Prefix(milli) == [set |-> TRUE, milli |-> milli, minus |-> milli < 0]

\* the prefix f"{x:0.3f}_" of a formatted number
PrefixOf(formatted) ==
    [set |-> TRUE, milli |-> formatted.milli, minus |-> formatted.minus]

\* The name of a file of the output directory:
\* {prefix}{stem}_{suffix}{tail}.tif, the suffix being a class name
FileName(prefix, stem, suffix, tail) ==
    [prefix |-> prefix, stem |-> stem, suffix |-> suffix, tail |-> tail]

\* The content of a file: what it is a raster of, and its pixels (none
\* modelled for the image of the tile).
Content(of, px) == [of |-> of, px |-> px]

\* An output directory: whether it exists, and the content of each file
EmptyDir == [dir |-> FALSE, files |-> <<>>]

Exists(fs, name) == name \in DOMAIN fs.files

\* rio.open(path, 'w') ... dst.write(arr, 1); shutil.copyfile(src, path)
WriteFile(fs, name, content) ==
    [fs EXCEPT !.files = [n \in DOMAIN fs.files \cup {name} |->
                             IF n = name THEN content ELSE fs.files[n]]]

\* shutil.move(src, dst)
MoveFile(fs, src, dst) ==
    [fs EXCEPT !.files = [n \in (DOMAIN fs.files \cup {dst}) \ {src} |->
                             IF n = dst THEN fs.files[src] ELSE fs.files[n]]]

\* output_dir.mkdir(...)
MakeDir(fs) == [fs EXCEPT !.dir = TRUE]

\* ------------------------------------------------------------------------
\* Evaluation mode: postprocess_for_evaluation
\* ------------------------------------------------------------------------
\* pct_black = 1 - ((sum / 250) / size)
BlackDivisor == 250

\* "1.001_"
AllBlackPrefix == 1001

\* ---- float64 ----------------------------------------------------------------
\* the bits of the significand of a float64
MantissaBits == 53

\* A float64: its sign (1, -1, and 0 for 0.0) and, for a value other than
\* 0.0, the MantissaBits bits of its significand, the first of them 1, bit i
\* being worth 2^(exp - i).
Float64(sign, exp, bits) == [sign |-> sign, exp |-> exp, bits |-> bits]

Zero64 == Float64(0, 0, <<>>)

One64 == Float64(1, 1, [idx \in 1 .. MantissaBits |-> IF idx = 1 THEN 1 ELSE 0])

\* one more in the last place; carry: every bit was 1
AddOne(bits) ==
    LET zeros == {idx \in DOMAIN bits : bits[idx] = 0}
    IN  IF zeros = {}
        THEN [carry |-> TRUE, bits |-> [idx \in DOMAIN bits |-> 0]]
        ELSE LET n == CHOOSE idx \in zeros : \A other \in zeros : other <= idx
             IN  [carry |-> FALSE,
                  bits |-> [idx \in DOMAIN bits |->
                               IF idx < n THEN bits[idx]
                               ELSE IF idx = n THEN 1 ELSE 0]]

\* the zeros before the first 1
LeadingZeros(bits) ==
    LET ones == {idx \in DOMAIN bits : bits[idx] = 1}
    IN  IF ones = {} THEN Len(bits)
        ELSE (CHOOSE idx \in ones : \A other \in ones : idx <= other) - 1

\* The float64 nearest to an exact value, a tie going to the even
\* significand. The value is given by its binary digits, digit i worth
\* 2^(exp - i), and by sticky: something nonzero follows the digits (the
\* digits then hold MantissaBits + 2 significant ones).
RoundToFloat64(sign, exp, bits, sticky) ==
    LET z == LeadingZeros(bits)
        sig == SubSeq(bits, z + 1, Len(bits))
        padded == [idx \in 1 .. MantissaBits |->
                      IF idx <= Len(sig) THEN sig[idx] ELSE 0]
        guard == IF Len(sig) > MantissaBits THEN sig[MantissaBits + 1] ELSE 0
        rest == sticky \/ \E idx \in DOMAIN sig :
                              idx > MantissaBits + 1 /\ sig[idx] = 1
        up == guard = 1 /\ (rest \/ padded[MantissaBits] = 1)
        inc == AddOne(padded)
    IN  IF sig = <<>> THEN Zero64
        ELSE IF ~up THEN Float64(sign, exp - z, padded)
        ELSE IF inc.carry THEN Float64(sign, exp - z + 1, One64.bits)
        ELSE Float64(sign, exp - z, inc.bits)

\* the binary digits are handled ChunkBits at a time
ChunkBits == 16

\* the chunks of a quotient: MantissaBits + 2 significant digits after the
\* at most ChunkBits - 1 zeros a divisor below 2^(ChunkBits - 1) leaves
QuotientChunks == 5

\* the number of binary digits of the integers converted (below 2^30)
IntegerBits == 30

\* the m binary digits of a natural number below 2^m, the highest first
Digits(n, m) == [idx \in 1 .. m |-> (n \div 2 ^ (m - idx)) % 2]

\* the natural number with the given binary digits
RECURSIVE Value(_)
Value(bits) ==
    IF bits = <<>> THEN 0
    ELSE IF Len(bits) = 1 THEN bits[1]
    ELSE LET half == Len(bits) \div 2
         IN  Value(SubSeq(bits, 1, half)) * 2 ^ (Len(bits) - half)
                 + Value(SubSeq(bits, half + 1, Len(bits)))

\* the float64 of an integer (the sum and the count of an array)
IntToFloat64(n) ==
    RoundToFloat64(1, IntegerBits, Digits(n, IntegerBits), FALSE)

\* Long division of binary digits by d < 2^(ChunkBits - 1), r being the
\* remainder so far: the digits of the quotient for the chunks k ..
\* QuotientChunks of the dividend (zeros after its last digit), and whether
\* a remainder is left.
RECURSIVE QuotientBits(_, _, _, _)
QuotientBits(dividend, r, d, k) ==
    IF k > QuotientChunks
    THEN [bits |-> <<>>, sticky |-> r # 0]
    ELSE LET chunk == [idx \in 1 .. ChunkBits |->
                          LET at == (k - 1) * ChunkBits + idx
                          IN  IF at \in DOMAIN dividend THEN dividend[at] ELSE 0]
             t == r * 2 ^ ChunkBits + Value(chunk)
             rest == QuotientBits(dividend, t % d, d, k + 1)
         IN  [bits |-> Digits(t \div d, ChunkBits) \o rest.bits,
              sticky |-> rest.sticky]

\* x / d for a float64 x >= 0 and an integer d > 0: the quotient, rounded
TrueDivide(x, d) ==
    IF x.sign = 0 THEN Zero64
    ELSE LET q == QuotientBits(x.bits, 0, d, 1)
         IN  RoundToFloat64(x.sign, x.exp, q.bits, q.sticky)

\* the digits of a float64 0 < x < 1 after the binary point
FractionBits(x) ==
    [idx \in 1 .. MantissaBits - x.exp |->
        IF idx <= -x.exp THEN 0 ELSE x.bits[idx + x.exp]]

\* 1 - b for a float64 0 <= b < 2 (the sum is at most 255 * size): exact
\* for b >= 1, rounded below
OneMinus(b) ==
    IF b.sign = 0 THEN One64
    ELSE IF b.exp = 1 THEN RoundToFloat64(-1, 0, Tail(b.bits), FALSE)
    ELSE LET f == FractionBits(b)
             c == AddOne([idx \in DOMAIN f |-> 1 - f[idx]])
         IN  RoundToFloat64(1, 0, c.bits, FALSE)

\* 1000 times the number with the binary digits f after the point: its
\* whole part, its first binary digit after the point, and whether
\* something nonzero follows that digit; ChunkBits digits at a time, the
\* last ones first
RECURSIVE ScaleBits(_)
ScaleBits(f) ==
    IF f = <<>>
    THEN [whole |-> 0, half |-> 0, more |-> FALSE]
    ELSE LET m == IF Len(f) < ChunkBits THEN Len(f) ELSE ChunkBits
             a == ScaleBits(SubSeq(f, m + 1, Len(f)))
             t == a.whole + 1000 * Value(SubSeq(f, 1, m))
             left == t % 2 ^ m
         IN  [whole |-> t \div 2 ^ m,
              half |-> IF left >= 2 ^ (m - 1) THEN 1 ELSE 0,
              more |-> left % 2 ^ (m - 1) # 0 \/ a.half = 1 \/ a.more]

\* f"{x:0.3f}" for a float64 -1 <= x <= 1, in thousandths: the thousandth
\* nearest to the value of the float64, a tie going to the even one; the
\* sign is written for every negative x
Format3(x) ==
    IF x.sign = 0
    THEN [minus |-> FALSE, milli |-> 0]
    ELSE LET a == ScaleBits(IF x.exp = 1 THEN Tail(x.bits) ELSE FractionBits(x))
             whole == a.whole + (IF x.exp = 1 THEN 1000 ELSE 0)
             k == IF a.half = 1 /\ (a.more \/ whole % 2 = 1)
                  THEN whole + 1
                  ELSE whole
         IN  [minus |-> x.sign < 0, milli |-> x.sign * k]

\* arr.sum()
RECURSIVE SumOver(_, _)
SumOver(px, S) ==
    IF S = {}
    THEN 0
    ELSE LET i == CHOOSE k \in S : TRUE IN px[i] + SumOver(px, S \ {i})

PixelSum(a) == SumOver(a.px, DOMAIN a.px)

\* arr.size
Size(a) == a.dim0 * a.dim1

\* the ground truth of a tile: whether input_mask_dir is given and exists,
\* whether one mask file is found for the tile, and its pixels
Truth(dir, found, arr) == [dir |-> dir, found |-> found, arr |-> arr]

\* to_categorical(mask_arr, nb_classes)[:,:,class_id] * 255
OneHot(a, class_id) ==
    [a EXCEPT !.px = [i \in DOMAIN a.px |->
                         IF a.px[i] = class_id THEN White ELSE 0]]

\* the mask compared with the prediction and written: the borders blanked,
\* the class extracted when there are several
MaskOfClass(truth_arr, border_pixels_to_ignore, class_id, nb_classes) ==
    LET blanked == IF BorderGuard(border_pixels_to_ignore)
                   THEN BlankBorder(truth_arr, border_pixels_to_ignore)
                   ELSE truth_arr
    IN  IF nb_classes > 1 THEN OneHot(blanked, class_id) ELSE blanked

\* np.equal(mask_arr, pred).sum() / pred.size, formatted
Similarity(mask_arr, pred) ==
    Format3(TrueDivide(
        IntToFloat64(Cardinality({idx \in DOMAIN pred.px :
                                     mask_arr.px[idx] = pred.px[idx]})),
        Size(pred)))

\* pct_black = 1 - ((pred.sum() / 250) / pred.size)
PctBlack(pred) ==
    OneMinus(TrueDivide(TrueDivide(IntToFloat64(PixelSum(pred)), BlackDivisor),
                        Size(pred)))

\* the prefix without ground truth, lines 271-285
PctBlackPrefix(pred, all_black) ==
    IF all_black \/ PctBlack(pred) = One64
    THEN Prefix(AllBlackPrefix)
    ELSE PrefixOf(Format3(PctBlack(pred)))

\* lines 292-302: the image is copied and the prediction moved under the
\* prefix, each when its destination does not exist yet
CopyAndMove(fs, pred_prefix, stem, output_suffix, pred_saved) ==
    LET image_dest == FileName(pred_prefix, stem, output_suffix, "")
        pred_src == FileName(NoPrefix, stem, output_suffix, "_pred")
        pred_dest == FileName(pred_prefix, stem, output_suffix, "_pred")
        copied == IF ~Exists(fs, image_dest)
                  THEN WriteFile(fs, image_dest, Content("image", <<>>))
                  ELSE fs
    IN  IF pred_saved /\ ~Exists(copied, pred_dest)
        THEN MoveFile(copied, pred_src, pred_dest)
        ELSE copied

\* lines 259-268: the mask is written
WriteMask(fs, name, mask_arr) == WriteFile(fs, name, Content("mask", mask_arr.px))

\* lines 219-285: the prefix of the file names
EvalPrefix(pred, pred_saved, class_id, nb_classes, truth, border_pixels_to_ignore) ==
    IF truth.dir
    THEN PrefixOf(Similarity(MaskOfClass(truth.arr, border_pixels_to_ignore,
                                         class_id, nb_classes), pred))
    ELSE PctBlackPrefix(pred, ~pred_saved)

\* postprocess_for_evaluation: the exception raised or "done", and the
\* output directory after the call. pred_saved: image_pred_filepath is not
\* None; the prediction raster is then the file {stem}{suffix}_pred.tif.
postprocess_for_evaluation(fs, stem, pred_saved, image_pred_uint8_cleaned_bin, class_id, class_name, nb_classes, truth, border_pixels_to_ignore) ==
    LET made == MakeDir(fs)
        output_suffix == class_name
        pred_prefix == EvalPrefix(image_pred_uint8_cleaned_bin, pred_saved,
                           class_id, nb_classes, truth, border_pixels_to_ignore)
    IN  IF truth.dir /\ ~truth.found
        THEN [result |-> Raise("Exception postprocessing prediction"),
              fs |-> made]
        ELSE IF truth.dir
        THEN LET mask_arr == MaskOfClass(truth.arr, border_pixels_to_ignore,
                                         class_id, nb_classes)
                 mask_dest == FileName(pred_prefix, stem, class_name, "_mask")
             IN  [result |-> Return("done"),
                  fs |-> CopyAndMove(WriteMask(made, mask_dest, mask_arr),
                             pred_prefix, stem, output_suffix, pred_saved)]
        ELSE [result |-> Return("done"),
              fs |-> CopyAndMove(made, pred_prefix, stem, output_suffix,
                                 pred_saved)]

\* polygonize_pred_for_evaluation: None returned or the exception raised,
\* and the output directory after the call. Without a polygon nothing is
\* written. The binary prediction is written to
\* {output_basefilepath}_pred_bin.tif; rio.open cannot make the file in a
\* directory that does not exist. With an x-scale in the transform the
\* polygons are simplified (shapely, preserve_topology: none becomes empty)
\* and burned into {output_basefilepath}_pred_cleaned_simpl.tif; the pixels
\* of that raster are the work of the libraries and not modelled.
\* output_basefilepath is given by its prefix, stem and suffix.
polygonize_pred_for_evaluation(fs, image_pred_uint8_bin, image_crs, image_transform, output_basefilepath) ==
    LET polygonized_records == Regions(Foreground(image_pred_uint8_bin))
        image_pred_cleaned_filepath ==
            [output_basefilepath EXCEPT !.tail = "_pred_bin"]
        image_pred_simpl_filepath ==
            [output_basefilepath EXCEPT !.tail = "_pred_cleaned_simpl"]
        saved == WriteFile(fs, image_pred_cleaned_filepath,
                           Content("pred_bin", image_pred_uint8_bin.px))
    IN  IF Len(polygonized_records) = 0
        THEN [result |-> Return("None"), fs |-> fs]
        ELSE IF ~fs.dir
        THEN [result |-> PolygonizationError(output_basefilepath, "rio.open"),
              fs |-> fs]
        ELSE IF image_transform.a # 0
        THEN [result |-> Return("None"),
              fs |-> WriteFile(saved, image_pred_simpl_filepath,
                               Content("pred_cleaned_simpl", <<>>))]
        ELSE [result |-> Return("None"), fs |-> saved]

\* ------------------------------------------------------------------------
\* Saving the rasters: save_prediction_uint8, clean_and_save_prediction
\* ------------------------------------------------------------------------
\* image_transform is None
NoTransform == [none |-> TRUE]

\* only None is refused
TransformOk_NoneOnly(image_transform) == image_transform # NoTransform

\* not (image_transform is None or image_transform[0] == 0)
TransformOk(image_transform) ==
    image_transform # NoTransform /\ image_transform.a # 0

\* save_prediction_uint8: the exception raised or the name of the file
\* written, and the output directory after the call
save_prediction_uint8(fs, stem, image_pred_uint8_cleaned, image_transform, output_suffix) ==
    IF ~TransformOk(image_transform)
    THEN [result |-> Raise("No transform found"), fs |-> fs]
    ELSE LET output_filepath == FileName(NoPrefix, stem, output_suffix, "_pred")
         IN  [result |-> Return(output_filepath),
              fs |-> WriteFile(MakeDir(fs), output_filepath,
                               Content("pred", image_pred_uint8_cleaned.px))]

\* thresshold = 127 of save_prediction_uint8 in segment.py
SegmentThreshold == 127

\* save_prediction_uint8 of segment.py: the exception raised or None, and
\* the directory of output_filepath after the call. The directory is made
\* first; the float32 prediction is converted to uint8 and reshaped to its
\* first two dimensions (numpy refuses that for more than one channel), its
\* borders are blanked, and it is written, as it is, when a pixel reaches
\* the threshold.
segment_save_prediction_uint8(fs, output_filepath, image_pred_arr, border_pixels_to_ignore) ==
    LET made == MakeDir(fs)
        image_pred_uint8 ==
            [ConvertFloat32(image_pred_arr) EXCEPT !.ndim = 2]
        image_pred_uint8_cropped ==
            IF BorderGuard(border_pixels_to_ignore)
            THEN BlankBorder(image_pred_uint8, border_pixels_to_ignore)
            ELSE image_pred_uint8
    IN  IF image_pred_arr.dtype # "float32"
        THEN [result |-> Raise("image prediction is of the wrong type"),
              fs |-> made]
        ELSE IF image_pred_arr.ndim > 2 /\ image_pred_arr.nch > 1
        THEN [result |-> Raise("ValueError: cannot reshape array"),
              fs |-> made]
        ELSE IF ~AnyAtLeast(image_pred_uint8_cropped, SegmentThreshold)
        THEN [result |-> Return("None"), fs |-> made]
        ELSE [result |-> Return("None"),
              fs |-> WriteFile(made, output_filepath,
                               Content("pred", image_pred_uint8_cropped.px))]

\* The loop of clean_and_save_prediction over the output directory. saved:
\* the calls of save_prediction_uint8 that returned, as [channel, classname,
\* name], in the order of the loop.
RECURSIVE CleanAndSaveLoop(_, _, _, _, _, _, _, _, _, _, _)
CleanAndSaveLoop(fs, stem, image_transform, image_pred_arr, classes, truth, border, minval, evalmode, channel_id, saved) ==
    IF channel_id >= Len(image_pred_arr.chans)
    THEN [result |-> Return(saved), fs |-> fs]
    ELSE
      LET cleaned == clean_prediction(ChannelSlice(image_pred_arr, channel_id),
                                      border, "binary").val
          class_name == ClassNameOf(classes, channel_id)
          s == save_prediction_uint8(fs, stem, cleaned, image_transform,
                                     class_name)
          e == postprocess_for_evaluation(s.fs, stem, TRUE,
                   to_binary_uint8(cleaned, PolygonizeThreshold).val,
                   channel_id, class_name, Len(image_pred_arr.chans), truth,
                   border)
          now == Append(saved, [channel |-> channel_id,
                                classname |-> class_name,
                                name |-> s.result.val])
      IN  IF ~SaveCondition(cleaned, minval, evalmode)
          THEN CleanAndSaveLoop(fs, stem, image_transform, image_pred_arr,
                   classes, truth, border, minval, evalmode, channel_id + 1,
                   saved)
          ELSE IF class_name = "None"
          THEN [result |-> Raise("No classname found for channel_id"), fs |-> fs]
          ELSE IF ~s.result.ok
          THEN [result |-> s.result, fs |-> s.fs]
          ELSE IF evalmode = TRUE /\ ~e.result.ok
          THEN [result |-> e.result, fs |-> e.fs]
          ELSE CleanAndSaveLoop(IF evalmode = TRUE THEN e.fs ELSE s.fs, stem,
                   image_transform, image_pred_arr, classes, truth, border,
                   minval, evalmode, channel_id + 1, now)

\* clean_and_save_prediction on an output directory
CleanAndSaveToDir(fs, stem, image_transform, image_pred_arr, classes, truth, border_pixels_to_ignore, min_pixelvalue_for_save, evaluate_mode_arg) ==
    LET nb_channels == Len(image_pred_arr.chans)
        channel_start == IF nb_channels > 1 THEN 1 ELSE 0
    IN  CleanAndSaveLoop(fs, stem, image_transform, image_pred_arr, classes,
            truth, border_pixels_to_ignore, min_pixelvalue_for_save,
            evaluate_mode_arg, channel_start, <<>>)

\* ------------------------------------------------------------------------
\* Geometries and numberpoints
\* ------------------------------------------------------------------------
\* A shapely geometry: its type and its polygons (one for a Polygon, any
\* number for a MultiPolygon, none for the other types); a polygon is an
\* exterior ring and a sequence of interior rings, a ring the sequence of
\* its coordinates, the closing one included.
Geometry(geom_type, parts) == [geom_type |-> geom_type, parts |-> parts]

Polygon(exterior, interiors) == [exterior |-> exterior, interiors |-> interiors]

\* for ring in polygon.interiors: nb_points += len(ring.coords)
RECURSIVE CountRings(_)
CountRings(rings) ==
    IF rings = <<>> THEN 0 ELSE Len(Head(rings)) + CountRings(Tail(rings))

\* the interior rings are not counted
PolygonPoints_ExteriorOnly(polygon) == Len(polygon.exterior)

\* the points numberpoints adds for one polygon
PolygonPoints(polygon) ==
    Len(polygon.exterior) + CountRings(polygon.interiors)

\* for polygon in geometry: ...
RECURSIVE CountParts(_)
CountParts(polygons) ==
    IF polygons = <<>>
    THEN 0
    ELSE PolygonPoints(Head(polygons)) + CountParts(Tail(polygons))

\* numberpoints, the local function of postprocess_predictions
numberpoints(geometry) ==
    IF geometry.geom_type = "MultiPolygon"
    THEN Return(CountParts(geometry.parts))
    ELSE IF geometry.geom_type = "Polygon"
    THEN Return(PolygonPoints(geometry.parts[1]))
    ELSE Raise("geometry type is not supported")

\* ------------------------------------------------------------------------
\* The dissolve stage: postprocess_predictions
\* ------------------------------------------------------------------------
\* A vector layer: whether the file exists, its columns, its features; a
\* feature is the set of grid cells its polygon covers and its classname
\* ("None" without the column).
Layer(exists, columns, features) ==
    [exists |-> exists, columns |-> columns, features |-> features]

\* groupby_columns is always None
GroupbyColumns_Never(columns) == <<>>

\* groupby_columns of postprocess_predictions; <<>> stands for None
GroupbyColumns(columns) ==
    IF "classname" \in columns THEN <<"classname">> ELSE <<>>

\* the value a feature is grouped on
GroupKey(feature, groupby_columns) ==
    IF groupby_columns = <<>> THEN "None" ELSE feature.classname

\* dissolve_tiles_path: None, or the file of a layer of tiles, a tile being
\* the set of grid cells it covers
NoTiles == [given |-> FALSE, tiles |-> {}]

TilesOf(tiles) == [given |-> TRUE, tiles |-> tiles]

\* the connected parts of a set of cells
Parts(cells) == {Regions(cells)[n] : n \in DOMAIN Regions(cells)}

\* geofileops.dissolve(tiles_path, groupby_columns, columns,
\* explodecollections=True, clip_on_tiles), library code: per group the
\* union of the polygons, one output feature per connected part; with
\* clip_on_tiles the union is cut on the borders of the tiles, one feature
\* per tile and connected part in it. sources are the input features an
\* output feature is built from.
dissolve(features, tiles_path, groupby_columns, clip_on_tiles) ==
    UNION {
        LET members == {k \in DOMAIN features :
                           GroupKey(features[k], groupby_columns) = key}
            merged == UNION {features[k].cells : k \in members}
            parts == IF clip_on_tiles
                     THEN UNION {Parts(merged \cap tile) : tile \in tiles_path.tiles}
                     ELSE Parts(merged)
        IN  {[cells |-> part,
              classname |-> key,
              area |-> Cardinality(part),
              sources |-> {k \in members : features[k].cells \cap part # {}}] :
                part \in parts} :
        key \in {GroupKey(features[k], groupby_columns) : k \in DOMAIN features}}

\* the file {stem}_dissolve{suffix}: absent, or a layer with its features
NoFile == [exists |-> FALSE, features |-> {}]

FileOf(features) == [exists |-> TRUE, features |-> features]

\* geofileops.dissolve(output_path, force): an existing output is left alone
\* when force is false and replaced when it is true; ops are the removals
\* and writes of the output file
DissolveToFile(input_layer, tiles_path, output_file, groupby_columns, clip_on_tiles, force) ==
    IF output_file.exists /\ ~force
    THEN [ran |-> FALSE, output |-> output_file, ops |-> <<>>]
    ELSE [ran |-> TRUE,
          output |-> FileOf(dissolve(input_layer.features, tiles_path,
                                     groupby_columns, clip_on_tiles)),
          ops |-> (IF output_file.exists THEN <<"remove">> ELSE <<>>)
                      \o <<"write">>]

\* the geometry of a dissolved feature: its cells are a connected part of
\* one row of the grid, a rectangle without holes
PartGeometry(cells) ==
    LET cols == {p[2] : p \in cells}
        r == (CHOOSE p \in cells : TRUE)[1]
        lo == CHOOSE c \in cols : \A d \in cols : c <= d
        hi == (CHOOSE c \in cols : \A d \in cols : c >= d) + 1
    IN  Geometry("Polygon",
            <<Polygon(<<<<lo, r>>, <<hi, r>>, <<hi, r + 1>>, <<lo, r + 1>>,
                        <<lo, r>>>>, <<>>)>>)

\* diss_gdf['area'] = ...; diss_gdf['nbcoords'] = ...
AddColumns(feature) ==
    [cells |-> feature.cells,
     classname |-> feature.classname,
     sources |-> feature.sources,
     area |-> Cardinality(feature.cells),
     nbcoords |-> numberpoints(PartGeometry(feature.cells)).val]

\* lines 104-126: the dissolved file is read, the columns area and nbcoords
\* are added, the file is removed and written again
RewriteOutput(d) ==
    [output |-> FileOf({AddColumns(f) : f \in d.output.features}),
     ops |-> d.ops \o <<"remove", "write">>]

\* postprocess_predictions: the outcome of the call (the exception raised,
\* or whether geofileops.dissolve did the dissolve and the features of the
\* file {stem}_dissolve), the output file after the call and the removals
\* and writes of that file in the order they were made
postprocess_predictions(input_layer, output_file, dissolve_arg, dissolve_tiles_path, force) ==
    IF ~input_layer.exists
    THEN [result |-> Raise("input_path does not exist"),
          output |-> output_file, ops |-> <<>>]
    ELSE IF ~dissolve_arg
    THEN [result |-> Return([written |-> FALSE, features |-> {}]),
          output |-> output_file, ops |-> <<>>]
    ELSE LET clip_on_tiles == dissolve_tiles_path # NoTiles
             d == DissolveToFile(input_layer, dissolve_tiles_path, output_file,
                                 GroupbyColumns(input_layer.columns),
                                 clip_on_tiles, force)
             unsupported == {f \in d.output.features :
                                ~numberpoints(PartGeometry(f.cells)).ok}
         IN  IF unsupported # {}
             THEN [result |-> Raise("geometry type is not supported"),
                   output |-> d.output, ops |-> d.ops]
             ELSE LET w == RewriteOutput(d)
                  IN  [result |-> Return([written |-> d.ran,
                                          features |-> w.output.features]),
                       output |-> w.output, ops |-> w.ops]

\* ------------------------------------------------------------------------
\* The batch driver: predict (segment.py)
\* ------------------------------------------------------------------------
\* largest number of runs of predict in a row
MaxRuns == 2
\* largest batch_size tried
MaxBatchSize == 2
\* longest ledger found before the first run
MaxLedger == 1

File(dir, stem, ext) == [dir |-> dir, stem |-> stem, ext |-> ext]

\* The files that may be in the input tree, in lexicographic path order:
\* in/a/x.tif < in/a/y.jpg < in/b/x.tif (two tiles share the basename x.tif)
LexOrder == <<File("a", "x", ".tif"), File("a", "y", ".jpg"), File("b", "x", ".tif")>>

AllFiles == {LexOrder[k] : k \in DOMAIN LexOrder}

PathPos(p) == CHOOSE k \in DOMAIN LexOrder : LexOrder[k] = p

\* string comparison of two paths, as sorted() does
PathLess(p, q) == PathPos(p) < PathPos(q)

\* the order in which the directory walk of glob.glob meets the files
GlobOrder == <<File("b", "x", ".tif"), File("a", "y", ".jpg"), File("a", "x", ".tif")>>

\* glob.glob(f"{input_image_dir}/**/*{ext}", recursive=True)
Glob(fs, ext) == SelectSeq(GlobOrder, LAMBDA p : p \in fs /\ p.ext = ext)

\* os.path.basename
Basename(p) == [stem |-> p.stem, ext |-> p.ext]

\* a line of images_done.txt as stored: the text and its line end
Line(text) == [text |-> text, eol |-> "\n"]

\* str.rstrip of a line read from the ledger: the text without the line end
\* (a basename ends in its extension, never in white space)
rstrip(line) == line.text

Basenames == {Basename(p) : p \in AllFiles}

SeqsUpTo(S, n) == UNION {[1 .. k -> S] : k \in 0 .. n}

\* the class names of the model: channel 0 is the background
Classes == <<"background", "panel">>

\* border_pixels_to_ignore of the runs
RunBorder == 0

\* the values of a pixel of a prediction in the runs: 0.0 and 1.0
RunPixelVals == {0, FloatGrid}

\* the predictions the model may return for a tile: one pixel, one channel
\* per class
ModelOutputs ==
    {Prediction(1, 1, [c \in DOMAIN Classes |-> [idx \in {<<0, 0>>} |-> v[c]]]) :
        v \in [DOMAIN Classes -> RunPixelVals]}

NoError == [stage |-> "none", tile |-> <<>>]

VARIABLES
    \* the environment: the input tree, the ledger file of the output
    \* directory, evaluate_mode of the runs
    files, ledger, evaluate_mode,
    \* the run: its number, its arguments, its position
    run, force, batch_size, pc, error,
    \* the locals of predict
    image_filepaths_sorted, nb_files, image_done_filenames, i,
    curr_batch_image_infos, curr_batch_image_infos_ext,
    curr_batch_image_pred_arr, j,
    \* what the run did so far: the batches passed to predict_on_batch, the
    \* tiles post-processed (each with the prediction used), the tiles whose
    \* line was appended, the rasters and vector features written
    ledger_at_start, inference_calls, postprocessed, appended,
    raster_writes, vector_writes,
    \* the arguments and the outcome of the previous run
    prev,
    \* a call of clean_prediction
    cl_pc, cl_input, cl_border, cl_depth, cl_result, cl_after,
    \* a call of polygonize_pred_multiclass
    mc_pc, mc_pred, mc_crs, mc_min, mc_border, mc_result,
    \* the calls of polygonize_pred_multiclass_to_file: their number, the
    \* vector files after the last
    mc_calls, mc_fs,
    \* a call of polygonize_pred: the mask, the result, border_bounds, the
    \* vertices of each feature after the simplification
    tp_pc, tp_mask, tp_transform, tp_border, tp_result, tp_bounds,
    tp_simplified,
    \* the calls of postprocess_predictions: the arguments, the number of
    \* calls made, the output file before and after the last call, the
    \* removals and writes of the output file by the last call
    ds_pc, ds_input, ds_tiles, ds_dissolve, ds_result, ds_force, ds_calls, ds_before,
    ds_output, ds_ops,
    \* a call of numberpoints
    pt_pc, pt_geometry, pt_result,
    \* a call of postprocess_for_evaluation: the arguments, the output
    \* directory before and after the call
    ev_pc, ev_pred, ev_saved, ev_nb_classes, ev_truth, ev_border, ev_before,
    ev_fs, ev_result,
    \* a call of clean_and_save_prediction: the arguments, the output
    \* directory before and after the call
    sv_pc, sv_pred, sv_classes, sv_transform, sv_min, sv_eval, sv_before,
    sv_fs, sv_result,
    \* a call of polygonize_pred, direct, from polygonize_pred_multiclass or
    \* from polygonize_pred_from_file, in which a statement may fail; the
    \* vector files after the call
    wr_pc, wr_caller, wr_mask, wr_pred, wr_path, wr_simplify, wr_failure,
    wr_channel, wr_min, wr_result, wr_fs

driverVars ==
    <<files, ledger, evaluate_mode, run, force, batch_size, pc, error,
      image_filepaths_sorted, nb_files, image_done_filenames, i,
      curr_batch_image_infos, curr_batch_image_infos_ext,
      curr_batch_image_pred_arr, j, ledger_at_start, inference_calls,
      postprocessed, appended, raster_writes, vector_writes, prev>>

cleanVars == <<cl_pc, cl_input, cl_border, cl_depth, cl_result, cl_after>>

multiVars ==
    <<mc_pc, mc_pred, mc_crs, mc_min, mc_border, mc_result, mc_calls, mc_fs>>

tileVars ==
    <<tp_pc, tp_mask, tp_transform, tp_border, tp_result, tp_bounds,
      tp_simplified>>

\* the variables of the calls of the functions checked on their own
dissVars ==
    <<ds_pc, ds_input, ds_tiles, ds_dissolve, ds_result, ds_force, ds_calls, ds_before,
      ds_output, ds_ops>>

pointVars == <<pt_pc, pt_geometry, pt_result>>

evalVars ==
    <<ev_pc, ev_pred, ev_saved, ev_nb_classes, ev_truth, ev_border, ev_before,
      ev_fs, ev_result>>

\* the groups added for the later stages of the pipeline
saveVars ==
    <<sv_pc, sv_pred, sv_classes, sv_transform, sv_min, sv_eval, sv_before,
      sv_fs, sv_result>>

wrapVars ==
    <<wr_pc, wr_caller, wr_mask, wr_pred, wr_path, wr_simplify, wr_failure,
      wr_channel, wr_min, wr_result, wr_fs>>

extraVars == <<pointVars, evalVars, saveVars, wrapVars>>

pureVars == <<cleanVars, multiVars, tileVars, dissVars, extraVars>>

vars == <<driverVars, pureVars>>

localVars ==
    <<image_filepaths_sorted, nb_files, image_done_filenames, i,
      curr_batch_image_infos, curr_batch_image_infos_ext,
      curr_batch_image_pred_arr, j>>

historyVars ==
    <<ledger_at_start, inference_calls, postprocessed, appended,
      raster_writes, vector_writes, prev>>

runVars == <<run, force, batch_size>>

\* ---- the state before the first run --------------------------------------
\* done: the tiles whose line the earlier runs appended; found: the ledger
\* found before the first run
NoPrev ==
    [ran |-> FALSE, force |-> FALSE, outcome |-> "none", done |-> {},
     found |-> <<>>]

LocalsInit ==
    /\ image_filepaths_sorted = <<>>
    /\ nb_files = 0
    /\ image_done_filenames = {}
    /\ i = 0
    /\ curr_batch_image_infos = <<>>
    /\ curr_batch_image_infos_ext = <<>>
    /\ curr_batch_image_pred_arr = <<>>
    /\ j = 0

HistoryInit ==
    /\ ledger_at_start = ledger
    /\ inference_calls = <<>>
    /\ postprocessed = <<>>
    /\ appended = <<>>
    /\ raster_writes = {}
    /\ vector_writes = {}
    /\ prev = [NoPrev EXCEPT !.found = ledger]

CleanOff ==
    /\ cl_pc = "off"
    /\ cl_input = Filled("uint8", 2, 1, 1, <<0>>)
    /\ cl_border = 0
    /\ cl_depth = "binary"
    /\ cl_result = Raise("not called")
    /\ cl_after = cl_input

MultiOff ==
    /\ mc_pc = "off"
    /\ mc_pred = Prediction(1, 1, <<>>)
    /\ mc_crs = "None"
    /\ mc_min = 0
    /\ mc_border = 0
    /\ mc_result = Raise("not called")
    /\ mc_calls = 0
    /\ mc_fs = NoVectorFiles

TileOff ==
    /\ tp_pc = "off"
    /\ tp_mask = Filled("uint8", 2, 1, 1, <<0>>)
    /\ tp_transform = Transform(1, -1, 0, 0)
    /\ tp_border = 0
    /\ tp_result = NoResult
    /\ tp_bounds = <<0, 0, 0, 0>>
    /\ tp_simplified = <<>>

DissOff ==
    /\ ds_pc = "off"
    /\ ds_input = Layer(FALSE, {}, <<>>)
    /\ ds_tiles = NoTiles
    /\ ds_dissolve = FALSE
    /\ ds_result = Raise("not called")
    /\ ds_force = FALSE
    /\ ds_calls = 0
    /\ ds_before = NoFile
    /\ ds_output = NoFile
    /\ ds_ops = <<>>

PointOff ==
    /\ pt_pc = "off"
    /\ pt_geometry = Geometry("Point", <<>>)
    /\ pt_result = Raise("not called")

EvalOff ==
    /\ ev_pc = "off"
    /\ ev_pred = Filled("uint8", 2, 1, 1, <<0>>)
    /\ ev_saved = FALSE
    /\ ev_nb_classes = 1
    /\ ev_truth = Truth(FALSE, FALSE, Filled("uint8", 2, 1, 1, <<0>>))
    /\ ev_border = 0
    /\ ev_before = EmptyDir
    /\ ev_fs = EmptyDir
    /\ ev_result = Raise("not called")

SaveOff ==
    /\ sv_pc = "off"
    /\ sv_pred = Prediction(1, 1, <<>>)
    /\ sv_classes = <<>>
    /\ sv_transform = NoTransform
    /\ sv_min = 0
    /\ sv_eval = FALSE
    /\ sv_before = EmptyDir
    /\ sv_fs = EmptyDir
    /\ sv_result = Raise("not called")

WrapOff ==
    /\ wr_pc = "off"
    /\ wr_caller = "direct"
    /\ wr_mask = Filled("uint8", 2, 1, 1, <<0>>)
    /\ wr_pred = Prediction(1, 1, <<>>)
    /\ wr_path = "None"
    /\ wr_simplify = FALSE
    /\ wr_failure = "none"
    /\ wr_channel = 0
    /\ wr_min = 0
    /\ wr_result = Raise("not called")
    /\ wr_fs = NoVectorFiles

ExtraOff == PointOff /\ EvalOff /\ SaveOff /\ WrapOff

\* The ledger holds lines written by earlier runs.
Init ==
    /\ files \in SUBSET AllFiles
    /\ ledger \in {[k \in DOMAIN s |-> Line(s[k])] : s \in SeqsUpTo(Basenames, MaxLedger)}
    /\ evaluate_mode \in BOOLEAN
    /\ run = 0
    /\ force = FALSE
    /\ batch_size = 1
    /\ pc = "idle"
    /\ error = NoError
    /\ LocalsInit
    /\ HistoryInit
    /\ CleanOff
    /\ MultiOff
    /\ TileOff
    /\ DissOff
    /\ ExtraOff

\* ---- predict, lines 232-269 ----------------------------------------------
\* the filenames read from images_done.txt
ReadLedger(l) == {rstrip(l[k]) : k \in DOMAIN l}

StartRun(f, bs) ==
    /\ pc \in {"idle", "done", "failed"}
    /\ run < MaxRuns
    /\ run' = run + 1
    /\ force' = f
    /\ batch_size' = bs
    /\ LET image_filepaths == Glob(files, ".tif") \o Glob(files, ".jpg")
       IN  /\ nb_files' = Len(image_filepaths)
           /\ image_filepaths_sorted' = SortSeq(image_filepaths, PathLess)
    /\ image_done_filenames' = IF f = FALSE THEN ReadLedger(ledger) ELSE {}
    /\ curr_batch_image_infos' = <<>>
    /\ curr_batch_image_infos_ext' = <<>>
    /\ curr_batch_image_pred_arr' = <<>>
    /\ i' = 0
    /\ j' = 0
    /\ pc' = "loop"
    /\ error' = NoError
    /\ ledger_at_start' = ledger
    /\ inference_calls' = <<>>
    /\ postprocessed' = <<>>
    /\ appended' = <<>>
    /\ raster_writes' = {}
    /\ vector_writes' = {}
    /\ prev' = IF run = 0 THEN prev
              ELSE [ran |-> TRUE, force |-> force, outcome |-> pc,
                    done |-> prev.done \cup {appended[k] : k \in DOMAIN appended},
                    found |-> prev.found]
    /\ UNCHANGED <<files, ledger, evaluate_mode, pureVars>>

\* ---- predict, lines 270-309: the loop over the sorted files ---------------
CurrentFile == image_filepaths_sorted[i + 1]

\* filename in image_done_filenames
IsDone_FullPath(image_filepath) == image_filepath \in image_done_filenames
IsDone(image_filepath) == Basename(image_filepath) \in image_done_filenames

Skipped(image_filepath) == force = FALSE /\ IsDone(image_filepath)

\* the output path of a tile
OutputDir(image_filepath) ==
    IF evaluate_mode THEN <<"out_eval">> ELSE <<"out", image_filepath.dir>>

ImageInfo(image_filepath) ==
    [input_image_filepath |-> image_filepath,
     output_pred_filename |-> <<image_filepath.stem, "_pred.tif">>,
     output_dir |-> OutputDir(image_filepath)]

\* nb_images_in_batch == batch_size or i == (nb_files-1)
FlushCondition(nb_images_in_batch, idx) ==
    nb_images_in_batch = batch_size \/ idx = nb_files - 1

LoopSkip ==
    /\ pc = "loop"
    /\ i < nb_files
    /\ Skipped(CurrentFile)
    /\ i' = i + 1
    /\ UNCHANGED <<files, ledger, evaluate_mode, runVars, pc, error,
                   image_filepaths_sorted, nb_files, image_done_filenames,
                   curr_batch_image_infos, curr_batch_image_infos_ext,
                   curr_batch_image_pred_arr, j, historyVars, pureVars>>

LoopAccumulate ==
    /\ pc = "loop"
    /\ i < nb_files
    /\ ~Skipped(CurrentFile)
    /\ curr_batch_image_infos' =
           Append(curr_batch_image_infos, ImageInfo(CurrentFile))
    /\ curr_batch_image_infos_ext' = <<>>
    /\ IF FlushCondition(Len(curr_batch_image_infos'), i)
       THEN pc' = "read" /\ i' = i
       ELSE pc' = "loop" /\ i' = i + 1
    /\ UNCHANGED <<files, ledger, evaluate_mode, runVars, error,
                   image_filepaths_sorted, nb_files, image_done_filenames,
                   curr_batch_image_pred_arr, j, historyVars, pureVars>>

LoopEnd ==
    /\ pc = "loop"
    /\ i = nb_files
    /\ pc' = "done"
    /\ UNCHANGED <<files, ledger, evaluate_mode, runVars, error, localVars,
                   historyVars, pureVars>>

\* ---- predict, lines 319-331: read the tiles of the batch -------------------
\* read_image: the CRS and the transform of the tile
ReadImageResult(image_info) ==
    [input_image_filepath |-> image_info.input_image_filepath,
     output_pred_filename |-> image_info.output_pred_filename,
     output_dir |-> image_info.output_dir,
     image_crs |-> "EPSG:31370",
     image_transform |-> Transform(1, -1, 0, 0),
     image_transform_ok |-> TRUE]

NextToRead == curr_batch_image_infos[Len(curr_batch_image_infos_ext) + 1]

ReadImage ==
    /\ pc = "read"
    /\ Len(curr_batch_image_infos_ext) < Len(curr_batch_image_infos)
    /\ curr_batch_image_infos_ext' =
           Append(curr_batch_image_infos_ext, ReadImageResult(NextToRead))
    /\ pc' = IF Len(curr_batch_image_infos_ext') = Len(curr_batch_image_infos)
             THEN "predict" ELSE "read"
    /\ UNCHANGED <<files, ledger, evaluate_mode, runVars, error,
                   image_filepaths_sorted, nb_files, image_done_filenames, i,
                   curr_batch_image_infos, curr_batch_image_pred_arr, j,
                   historyVars, pureVars>>

\* read_image raises (rio.open fails): nothing in predict catches it
ReadImageRaises ==
    /\ pc = "read"
    /\ Len(curr_batch_image_infos_ext) < Len(curr_batch_image_infos)
    /\ pc' = "failed"
    /\ error' = [stage |-> "read", tile |-> NextToRead.input_image_filepath]
    /\ UNCHANGED <<files, ledger, evaluate_mode, runVars, localVars,
                   historyVars, pureVars>>

\* ---- predict, lines 333-336: one call of the model per batch --------------
BatchPaths ==
    [k \in DOMAIN curr_batch_image_infos_ext |->
        curr_batch_image_infos_ext[k].input_image_filepath]

PredictOnBatch_LogsBatch ==
    /\ pc = "predict"
    /\ \E preds \in [DOMAIN curr_batch_image_infos_ext -> ModelOutputs] :
           curr_batch_image_pred_arr' = preds
    /\ inference_calls' = Append(inference_calls, BatchPaths)
    /\ j' = 0
    /\ pc' = "post"
    /\ ledger' = ledger \o [k \in DOMAIN BatchPaths |-> Line(Basename(BatchPaths[k]))]
    /\ appended' = appended \o BatchPaths
    /\ UNCHANGED <<files, evaluate_mode, runVars, error,
                   image_filepaths_sorted, nb_files, image_done_filenames, i,
                   curr_batch_image_infos, curr_batch_image_infos_ext,
                   ledger_at_start, postprocessed,
                   raster_writes, vector_writes, prev, pureVars>>
PredictOnBatch ==
    /\ pc = "predict"
    /\ \E preds \in [DOMAIN curr_batch_image_infos_ext -> ModelOutputs] :
           curr_batch_image_pred_arr' = preds
    /\ inference_calls' = Append(inference_calls, BatchPaths)
    /\ j' = 0
    /\ pc' = "post"
    /\ UNCHANGED <<files, ledger, evaluate_mode, runVars, error,
                   image_filepaths_sorted, nb_files, image_done_filenames, i,
                   curr_batch_image_infos, curr_batch_image_infos_ext,
                   ledger_at_start, postprocessed, appended,
                   raster_writes, vector_writes, prev, pureVars>>

\* model.predict_on_batch raises
PredictRaises ==
    /\ pc = "predict"
    /\ pc' = "failed"
    /\ error' = [stage |-> "predict", tile |-> BatchPaths[1]]
    /\ UNCHANGED <<files, ledger, evaluate_mode, runVars, localVars,
                   historyVars, pureVars>>

\* ---- predict, lines 349-370: post-process and log each tile ---------------
\* postp.postprocess_prediction, the per-tile step (c) of the batching rule:
\* clean, save and polygonize the prediction of the tile. The channels other
\* than the background are cleaned one by one. A channel whose cleaned mask
\* has no pixel >= 127 is neither written as a raster nor polygonized,
\* whatever evaluate_mode; a channel that has one is written as the raster
\* of its class, which takes a valid geotransform, and polygonized at
\* threshold 125 with the name of its class.
postprocess_prediction_SavesInEvaluateMode(image_info, image_pred_arr) ==
    LET nb_channels == Len(image_pred_arr.chans)
        channels == IF nb_channels > 1 THEN 1 .. nb_channels - 1 ELSE {0}
        cleaned(c) == clean_prediction(ChannelSlice(image_pred_arr, c),
                                       RunBorder, "binary").val
        written == {c \in channels :
                       \/ AnyAtLeast(cleaned(c), DefaultMinPixelvalueForSave)
                       \/ evaluate_mode = TRUE}
        polygons(c) == polygonize_pred(
                           to_binary_uint8(cleaned(c), PolygonizeThreshold).val,
                           image_info.image_crs, image_info.image_transform,
                           ClassNameOf(Classes, c))
    IN  IF written # {} /\ ~image_info.image_transform_ok
        THEN Raise("No transform found")
        ELSE Return([rasters |->
                        {[tile |-> image_info.input_image_filepath,
                          classname |-> ClassNameOf(Classes, c)] : c \in written},
                     features |->
                        {[tile |-> image_info.input_image_filepath,
                          classname |-> ClassNameOf(Classes, c)] :
                            c \in {d \in written : polygons(d) # NoResult}}])
postprocess_prediction(image_info, image_pred_arr) ==
    LET nb_channels == Len(image_pred_arr.chans)
        channels == IF nb_channels > 1 THEN 1 .. nb_channels - 1 ELSE {0}
        cleaned(c) == clean_prediction(ChannelSlice(image_pred_arr, c),
                                       RunBorder, "binary").val
        written == {c \in channels :
                       AnyAtLeast(cleaned(c), DefaultMinPixelvalueForSave)}
        polygons(c) == polygonize_pred(
                           to_binary_uint8(cleaned(c), PolygonizeThreshold).val,
                           image_info.image_crs, image_info.image_transform,
                           ClassNameOf(Classes, c))
    IN  IF written # {} /\ ~image_info.image_transform_ok
        THEN Raise("No transform found")
        ELSE Return([rasters |->
                        {[tile |-> image_info.input_image_filepath,
                          classname |-> ClassNameOf(Classes, c)] : c \in written},
                     features |->
                        {[tile |-> image_info.input_image_filepath,
                          classname |-> ClassNameOf(Classes, c)] :
                            c \in {d \in written : polygons(d) # NoResult}}])

CurrentInfo == curr_batch_image_infos_ext[j + 1]

PostprocessPrediction ==
    /\ pc = "post"
    /\ LET r == postprocess_prediction(CurrentInfo, curr_batch_image_pred_arr[j + 1])
       IN  /\ r.ok
           /\ raster_writes' = raster_writes \cup r.val.rasters
           /\ vector_writes' = vector_writes \cup r.val.features
    /\ postprocessed' = Append(postprocessed,
                               [tile |-> CurrentInfo.input_image_filepath,
                                pred |-> curr_batch_image_pred_arr[j + 1]])
    /\ pc' = "log"
    /\ UNCHANGED <<files, ledger, evaluate_mode, runVars, error, localVars,
                   ledger_at_start, inference_calls, appended, prev, pureVars>>

\* postprocess_prediction raises (a tile without a valid geotransform whose
\* raster is to be written, a failure while polygonizing, a failed write):
\* nothing in predict catches it
PostprocessRaises_Swallowed ==
    /\ pc = "post"
    /\ pc' = "log"
    /\ error' = [stage |-> "postprocess", tile |-> CurrentInfo.input_image_filepath]
    /\ UNCHANGED <<files, ledger, evaluate_mode, runVars, localVars,
                   historyVars, pureVars>>
PostprocessRaises ==
    /\ pc = "post"
    /\ pc' = "failed"
    /\ error' = [stage |-> "postprocess", tile |-> CurrentInfo.input_image_filepath]
    /\ UNCHANGED <<files, ledger, evaluate_mode, runVars, localVars,
                   historyVars, pureVars>>

\* with open(images_done_log_filepath, "a+") as f: f.write(basename + '\n')
AppendLine_Truncating(l, text) == <<Line(text)>>
AppendLine(l, text) == Append(l, Line(text))

\* the ledger line of the tile; after the last tile of the batch, line 385
\* resets the batch and the loop goes on (the lists of lines 307-308 and the
\* predictions are dead from here on)
WriteDoneLine ==
    /\ pc = "log"
    /\ ledger' = AppendLine(ledger, Basename(CurrentInfo.input_image_filepath))
    /\ appended' = Append(appended, CurrentInfo.input_image_filepath)
    /\ IF j + 1 = Len(curr_batch_image_infos_ext)
       THEN /\ curr_batch_image_infos' = <<>>
            /\ curr_batch_image_infos_ext' = <<>>
            /\ curr_batch_image_pred_arr' = <<>>
            /\ j' = 0
            /\ i' = i + 1
            /\ pc' = "loop"
       ELSE /\ j' = j + 1
            /\ pc' = "post"
            /\ UNCHANGED <<curr_batch_image_infos, curr_batch_image_infos_ext,
                           curr_batch_image_pred_arr, i>>
    /\ UNCHANGED <<files, evaluate_mode, runVars, error,
                   image_filepaths_sorted, nb_files, image_done_filenames,
                   ledger_at_start, inference_calls, postprocessed,
                   raster_writes, vector_writes, prev, pureVars>>

Next ==
    \/ \E f \in BOOLEAN, bs \in 1 .. MaxBatchSize : StartRun(f, bs)
    \/ LoopSkip
    \/ LoopAccumulate
    \/ LoopEnd
    \/ ReadImage
    \/ ReadImageRaises
    \/ PredictOnBatch
    \/ PredictRaises
    \/ PostprocessPrediction
    \/ PostprocessRaises
    \/ WriteDoneLine

Spec == Init /\ [][Next]_vars

\* ------------------------------------------------------------------------
\* A call of clean_prediction on an arbitrary valid input
\* ------------------------------------------------------------------------
DriverOff ==
    /\ files = {}
    /\ ledger = <<>>
    /\ evaluate_mode = FALSE
    /\ run = 0
    /\ force = FALSE
    /\ batch_size = 1
    /\ pc = "off"
    /\ error = NoError
    /\ LocalsInit
    /\ HistoryInit

CleanInit ==
    /\ DriverOff
    /\ cl_pc = "call"
    /\ cl_input \in ValidArrays
    /\ cl_border \in 0 .. MaxBorder
    /\ cl_depth \in {"binary", "full"}
    /\ cl_result = Raise("not called")
    /\ cl_after = cl_input
    /\ MultiOff
    /\ TileOff
    /\ DissOff
    /\ ExtraOff

CleanCall ==
    /\ cl_pc = "call"
    /\ cl_result' = clean_prediction(cl_input, cl_border, cl_depth)
    /\ cl_after' = ArgumentAfter(cl_input, cl_border, cl_depth)
    /\ cl_pc' = "returned"
    /\ UNCHANGED <<driverVars, cl_input, cl_border, cl_depth, multiVars,
                   tileVars, dissVars, extraVars>>

CleanNext == CleanCall

SpecClean == CleanInit /\ [][CleanNext]_vars

\* a call of clean_prediction on any input, valid or not
CleanAnyInit ==
    /\ DriverOff
    /\ cl_pc = "call"
    /\ cl_input \in ValidArrays \cup InvalidArrays
    /\ cl_border \in 0 .. MaxBorder
    /\ cl_depth \in AnyDepths
    /\ cl_result = Raise("not called")
    /\ cl_after = cl_input
    /\ MultiOff
    /\ TileOff
    /\ DissOff
    /\ ExtraOff

SpecCleanAny == CleanAnyInit /\ [][CleanNext]_vars

\* ------------------------------------------------------------------------
\* A call of polygonize_pred_multiclass
\* ------------------------------------------------------------------------
\* largest number of rows and of columns of a mask that is polygonized
MaxTileDim == 3

\* largest number of calls on the same input and output path
MaxCalls == 2

\* the class names of a model with three channels
PolyClasses == <<"background", "panel", "road">>

\* pixels of 2 x 3 units, origin (10, 20)
MultiTransform == Transform(2, -3, 10, 20)

MultiPalettes == UNION {[1 .. n -> RunPixelVals] : n \in 1 .. MaxPalette}

MultiPredictions ==
    {Prediction(d[1], d[2],
                [c \in DOMAIN PolyClasses |->
                    Filled("float32", 2, d[1], d[2], pals[c]).px]) :
        d \in (1 .. MaxTileDim) \X (1 .. MaxTileDim),
        pals \in [DOMAIN PolyClasses -> MultiPalettes]}

MultiInit ==
    /\ DriverOff
    /\ CleanOff
    /\ mc_pc = "call"
    /\ mc_pred \in MultiPredictions
    /\ mc_crs \in {"EPSG:31370", "None"}
    /\ mc_min \in {0, DefaultMinPixelvalueForSave}
    /\ mc_border \in {0, 1}
    /\ mc_result = Raise("not called")
    /\ mc_calls = 0
    /\ mc_fs = NoVectorFiles
    /\ TileOff
    /\ DissOff
    /\ ExtraOff

MultiCall ==
    /\ mc_pc = "call"
    /\ mc_result' = polygonize_pred_multiclass(mc_pred, mc_crs, MultiTransform,
                                               mc_min, PolyClasses, mc_border)
    /\ mc_pc' = "returned"
    /\ UNCHANGED <<driverVars, cleanVars, mc_pred, mc_crs, mc_min, mc_border,
                   mc_calls, mc_fs, tileVars, dissVars, extraVars>>

\* the file the polygons of the tiles are collected in
OutputVectorPath == "out.gpkg"

\* polygonize_pred_multiclass_to_file, called for the prediction once more
MultiCallToFile ==
    /\ mc_pc \in {"call", "saved"}
    /\ mc_calls < MaxCalls
    /\ LET r == polygonize_pred_multiclass_to_file(mc_fs, mc_pred, mc_crs,
                     MultiTransform, mc_min, PolyClasses, OutputVectorPath,
                     mc_border)
       IN  /\ mc_result' = r.result
           /\ mc_fs' = r.fs
    /\ mc_calls' = mc_calls + 1
    /\ mc_pc' = "saved"
    /\ UNCHANGED <<driverVars, cleanVars, mc_pred, mc_crs, mc_min, mc_border,
                   tileVars, dissVars, extraVars>>

MultiNext == MultiCall \/ MultiCallToFile

SpecMulti == MultiInit /\ [][MultiNext]_vars

\* ---- polygonize_pred_multiclass around the two thresholds -------------------
\* largest number of rows and of columns of these predictions
MaxThresholdDim == 2

\* largest number of pixel values of a channel of these predictions
MaxThresholdPalette == 2

\* nb_channels of these predictions
ThresholdChannels == 2

\* a float32 value that np.array(v * 255, dtype=np.uint8) turns into u
PixelWithUint8(u) == CHOOSE k \in 0 .. FloatGrid : AsUint8(k) = u

\* 0.0, and the values that become 126 (below the 127 of clean_prediction,
\* at or above the 125 of to_binary_uint8) and 127
ThresholdPixelVals ==
    {0, PixelWithUint8(BinaryThreshold - 1), PixelWithUint8(BinaryThreshold)}

ThresholdPalettes ==
    UNION {[1 .. n -> ThresholdPixelVals] : n \in 1 .. MaxThresholdPalette}

ThresholdPredictions ==
    {Prediction(d[1], d[2],
                [c \in 1 .. ThresholdChannels |->
                    Filled("float32", 2, d[1], d[2], pals[c]).px]) :
        d \in (1 .. MaxThresholdDim) \X (1 .. MaxThresholdDim),
        pals \in [1 .. ThresholdChannels -> ThresholdPalettes]}

\* min_pixelvalue_for_save: off, the smallest and the largest value that
\* switch the test on, and the default
MinPixelvalues == {0, 1, DefaultMinPixelvalueForSave, White}

ThresholdInit ==
    /\ DriverOff
    /\ CleanOff
    /\ mc_pc = "call"
    /\ mc_pred \in ThresholdPredictions
    /\ mc_crs = "EPSG:31370"
    /\ mc_min \in MinPixelvalues
    /\ mc_border \in {0, 1}
    /\ mc_result = Raise("not called")
    /\ mc_calls = 0
    /\ mc_fs = NoVectorFiles
    /\ TileOff
    /\ DissOff
    /\ ExtraOff

SpecThreshold == ThresholdInit /\ [][MultiNext]_vars

\* ------------------------------------------------------------------------
\* A call of polygonize_pred
\* ------------------------------------------------------------------------
TileMasks ==
    {Filled("uint8", 2, d[1], d[2], pal) :
        d \in (1 .. MaxTileDim) \X (1 .. MaxTileDim),
        pal \in UNION {[1 .. n -> {0, White}] : n \in 1 .. MaxPalette}}

\* north-up transforms with integer pixel sizes
TileTransforms == {Transform(1, -1, 0, 0), Transform(2, -3, 10, 20)}

TileInit ==
    /\ DriverOff
    /\ CleanOff
    /\ MultiOff
    /\ tp_pc = "call"
    /\ tp_mask \in TileMasks
    /\ tp_transform \in TileTransforms
    /\ tp_border \in {0, 1}
    /\ tp_result = NoResult
    /\ tp_bounds = <<0, 0, 0, 0>>
    /\ tp_simplified = <<>>
    /\ DissOff
    /\ ExtraOff

\* the result of polygonize_pred for the mask of the call
TileResult == polygonize_pred(tp_mask, "EPSG:31370", tp_transform, "panel")

\* the vertices of the polygons before the simplification
TileVertices ==
    [k \in DOMAIN TileResult.features |->
        Vertices(TileResult.features[k].cells, tp_mask.dim0, tp_mask.dim1,
                 tp_transform)]

\* polygonize_pred without prediction_cleanup_params
TileCall ==
    /\ tp_pc = "call"
    /\ tp_result' = TileResult
    /\ tp_bounds' = IF TileResult = NoResult THEN tp_bounds
                     ELSE BorderBounds(tp_mask, tp_transform, tp_border)
    /\ tp_simplified' = IF TileResult = NoResult THEN <<>> ELSE TileVertices
    /\ tp_pc' = "returned"
    /\ UNCHANGED <<driverVars, cleanVars, multiVars, tp_mask, tp_transform,
                   tp_border, dissVars, extraVars>>

\* polygonize_pred with a simplify_algorythm in prediction_cleanup_params
TileCallSimplify ==
    /\ tp_pc = "call"
    /\ \E outcome \in polygonize_pred_simplified(tp_mask, "EPSG:31370",
                            tp_transform, "panel", tp_border) :
           /\ tp_result' = outcome.result
           /\ tp_simplified' = outcome.simplified
    /\ tp_bounds' = IF TileResult = NoResult THEN tp_bounds
                     ELSE BorderBounds(tp_mask, tp_transform, tp_border)
    /\ tp_pc' = "simplified"
    /\ UNCHANGED <<driverVars, cleanVars, multiVars, tp_mask, tp_transform,
                   tp_border, dissVars, extraVars>>

TileNext == TileCall \/ TileCallSimplify

SpecTile == TileInit /\ [][TileNext]_vars

\* ------------------------------------------------------------------------
\* A call of postprocess_predictions
\* ------------------------------------------------------------------------
\* largest number of features of the input layer
MaxFeatures == 2

\* the grid the polygons of the layer are drawn on: one row of cells
LayerCells == {0} \X (0 .. MaxTileDim - 1)

\* a polygon covers a connected set of cells
Polygons == {S \in SUBSET LayerCells : S # {} /\ Len(Regions(S)) = 1}

LayerFeatures(classnames) ==
    SeqsUpTo([cells : Polygons, classname : classnames], MaxFeatures)

InputLayers ==
    {Layer(TRUE, {"geometry", "classname"}, fs) :
        fs \in LayerFeatures({"panel", "road"})}
        \cup {Layer(TRUE, {"geometry"}, fs) : fs \in LayerFeatures({"None"})}
        \cup {Layer(FALSE, {}, <<>>)}

\* dissolve_tiles_path: None, one tile over the whole grid, or two tiles
\* with their border after column k - 1
LayerTilings ==
    {NoTiles, TilesOf({LayerCells})}
        \cup {TilesOf({{c \in LayerCells : c[2] < k},
                        {c \in LayerCells : c[2] >= k}}) :
                  k \in 1 .. MaxTileDim - 1}

DissInit ==
    /\ DriverOff
    /\ CleanOff
    /\ MultiOff
    /\ TileOff
    /\ ExtraOff
    /\ ds_pc = "call"
    /\ ds_input \in InputLayers
    /\ ds_tiles \in LayerTilings
    /\ ds_dissolve \in BOOLEAN
    /\ ds_result = Raise("not called")
    /\ ds_force = FALSE
    /\ ds_calls = 0
    /\ ds_before = NoFile
    /\ ds_output = NoFile
    /\ ds_ops = <<>>

DissCall ==
    /\ ds_pc \in {"call", "returned"}
    /\ ds_calls < MaxCalls
    /\ \E f \in BOOLEAN :
           LET r == postprocess_predictions(ds_input, ds_output, ds_dissolve,
                                            ds_tiles, f)
           IN  /\ ds_force' = f
               /\ ds_before' = ds_output
               /\ ds_result' = r.result
               /\ ds_output' = r.output
               /\ ds_ops' = r.ops
    /\ ds_calls' = ds_calls + 1
    /\ ds_pc' = "returned"
    /\ UNCHANGED <<driverVars, cleanVars, multiVars, tileVars, extraVars,
                   ds_input, ds_tiles, ds_dissolve>>

DissNext == DissCall

SpecDissolve == DissInit /\ [][DissNext]_vars

\* ------------------------------------------------------------------------
\* A call of numberpoints
\* ------------------------------------------------------------------------
\* largest number of polygons of a multi-polygon
MaxParts == 2

\* largest number of interior rings of a polygon
MaxInteriors == 2

\* a triangle and a square, closed rings of 4 and 5 coordinates
Rings ==
    {<<<<0, 0>>, <<4, 0>>, <<0, 4>>, <<0, 0>>>>,
     <<<<0, 0>>, <<4, 0>>, <<4, 4>>, <<0, 4>>, <<0, 0>>>>}

\* the positions of the coordinates in a ring
RingPositions == UNION {DOMAIN r : r \in Rings}

PolygonParts ==
    {Polygon(e, h) : e \in Rings, h \in SeqsUpTo(Rings, MaxInteriors)}

OtherGeomTypes == {"Point", "LineString", "GeometryCollection"}

Geometries ==
    {Geometry("Polygon", <<q>>) : q \in PolygonParts}
        \cup {Geometry("MultiPolygon", qs) : qs \in SeqsUpTo(PolygonParts, MaxParts)}
        \cup {Geometry(t, <<>>) : t \in OtherGeomTypes}

PointInit ==
    /\ DriverOff
    /\ CleanOff
    /\ MultiOff
    /\ TileOff
    /\ DissOff
    /\ EvalOff
    /\ SaveOff
    /\ WrapOff
    /\ pt_pc = "call"
    /\ pt_geometry \in Geometries
    /\ pt_result = Raise("not called")

PointCall ==
    /\ pt_pc = "call"
    /\ pt_result' = numberpoints(pt_geometry)
    /\ pt_pc' = "returned"
    /\ UNCHANGED <<driverVars, cleanVars, multiVars, tileVars, dissVars,
                   evalVars, saveVars, wrapVars, pt_geometry>>

PointNext == PointCall

SpecPoints == PointInit /\ [][PointNext]_vars

\* ------------------------------------------------------------------------
\* A call of postprocess_for_evaluation
\* ------------------------------------------------------------------------
\* largest width and height of the square tiles evaluated
MaxEvalDim == 2

\* the tile evaluated and its class
EvalStem == "x"

EvalClass == "panel"

\* binary masks
BinaryPalettes == UNION {[1 .. n -> {0, White}] : n \in 1 .. MaxPalette}

BinaryMasks(d) == {Filled("uint8", 2, d, d, pal) : pal \in BinaryPalettes}

\* the pixels of a ground-truth mask file: 0 and 255 for one class, class
\* numbers for several
TruthPalettes(nb_classes) ==
    UNION {[1 .. n -> IF nb_classes > 1 THEN 0 .. nb_classes - 1 ELSE {0, White}] :
               n \in 1 .. MaxPalette}

Truths(d, nb_classes) ==
    {Truth(FALSE, FALSE, Filled("uint8", 2, d, d, <<0>>)),
     Truth(TRUE, FALSE, Filled("uint8", 2, d, d, <<0>>))}
        \cup {Truth(TRUE, TRUE, Filled("uint8", 2, d, d, pal)) :
                  pal \in TruthPalettes(nb_classes)}

\* the class of the channel evaluated: channel 0 is skipped when there are
\* several
EvalClassId(nb_classes) == IF nb_classes > 1 THEN 1 ELSE 0

\* the destinations of the call, each with the kind of file it receives
EvalDests(pred_prefix) ==
    {FileName(pred_prefix, EvalStem, EvalClass, tail) : tail \in {"", "_pred", "_mask"}}

\* the output directory before the call: the prediction raster when it was
\* saved, and files left at some of the destinations by earlier evaluations
DirBefore(pred_saved, stale) ==
    LET names == stale \cup (IF pred_saved
                             THEN {FileName(NoPrefix, EvalStem, EvalClass, "_pred")}
                             ELSE {})
    IN  [dir |-> names # {},
         files |-> [n \in names |->
                       IF n \in stale
                       THEN Content("earlier", <<>>)
                       ELSE Content("pred", <<>>)]]

EvalInit ==
    /\ DriverOff
    /\ CleanOff
    /\ MultiOff
    /\ TileOff
    /\ DissOff
    /\ PointOff
    /\ SaveOff
    /\ WrapOff
    /\ ev_pc = "call"
    /\ ev_nb_classes \in 1 .. 2
    /\ ev_border \in 0 .. 1
    /\ ev_saved \in BOOLEAN
    /\ \E d \in 1 .. MaxEvalDim :
           /\ ev_pred \in BinaryMasks(d)
           /\ ev_truth \in Truths(d, ev_nb_classes)
    /\ \E stale \in SUBSET EvalDests(EvalPrefix(ev_pred, ev_saved,
                         EvalClassId(ev_nb_classes), ev_nb_classes, ev_truth,
                         ev_border)) :
           ev_before = DirBefore(ev_saved, stale)
    /\ ev_fs = ev_before
    /\ ev_result = Raise("not called")

EvalCall ==
    /\ ev_pc = "call"
    /\ LET r == postprocess_for_evaluation(ev_fs, EvalStem, ev_saved, ev_pred,
                     EvalClassId(ev_nb_classes), EvalClass, ev_nb_classes,
                     ev_truth, ev_border)
       IN  /\ ev_result' = r.result
           /\ ev_fs' = r.fs
    /\ ev_pc' = "returned"
    /\ UNCHANGED <<driverVars, cleanVars, multiVars, tileVars, dissVars,
                   pointVars, saveVars, wrapVars, ev_pred, ev_saved, ev_nb_classes,
                   ev_truth, ev_border, ev_before>>

\* transforms without and with an x-scale
EvalTransforms == {Transform(0, -1, 0, 0), Transform(1, -1, 0, 0)}

\* polygonize_pred_for_evaluation on the prediction, as the call left in
\* postprocess_for_evaluation (310-314) gives its arguments
EvalPolygonize ==
    /\ ev_pc = "call"
    /\ \E image_transform \in EvalTransforms :
           LET r == polygonize_pred_for_evaluation(ev_fs, ev_pred, "EPSG:31370",
                        image_transform,
                        FileName(EvalPrefix(ev_pred, ev_saved,
                                     EvalClassId(ev_nb_classes), ev_nb_classes,
                                     ev_truth, ev_border),
                                 EvalStem, EvalClass, ""))
           IN  /\ ev_result' = r.result
               /\ ev_fs' = r.fs
    /\ ev_pc' = "polygonized"
    /\ UNCHANGED <<driverVars, cleanVars, multiVars, tileVars, dissVars,
                   pointVars, saveVars, wrapVars, ev_pred, ev_saved, ev_nb_classes,
                   ev_truth, ev_border, ev_before>>

EvalNext == EvalCall \/ EvalPolygonize

SpecEval == EvalInit /\ [][EvalNext]_vars

\* ------------------------------------------------------------------------
\* A call of clean_and_save_prediction
\* ------------------------------------------------------------------------
\* largest number of channels of the predictions saved
MaxSaveChannels == 2

\* the patterns a channel is filled with: black, white, black and white
SavePalettes == {<<0>>, <<FloatGrid>>, <<0, FloatGrid>>}

SavePredictions ==
    {Prediction(d, d, [c \in 1 .. n |-> Filled("float32", 2, d, d, pals[c]).px]) :
        <<d, n, pals>> \in
            {<<d, n, pals>> \in
                (1 .. MaxEvalDim) \X (1 .. MaxSaveChannels)
                    \X UNION {[1 .. k -> SavePalettes] : k \in 1 .. MaxSaveChannels} :
                Len(pals) = n}}

\* a class name for every channel, or for every channel but the last
SaveClasses(image_pred_arr) ==
    {SubSeq(PolyClasses, 1, Len(image_pred_arr.chans)),
     SubSeq(PolyClasses, 1, Len(image_pred_arr.chans) - 1)}

\* no transform, a transform with x-scale 0, a transform of 1 x 1 pixels
SaveTransforms == {NoTransform, Transform(0, -1, 0, 0), Transform(1, -1, 0, 0)}

SaveInit ==
    /\ DriverOff
    /\ CleanOff
    /\ MultiOff
    /\ TileOff
    /\ DissOff
    /\ PointOff
    /\ EvalOff
    /\ WrapOff
    /\ sv_pc = "call"
    /\ sv_pred \in SavePredictions
    /\ sv_classes \in SaveClasses(sv_pred)
    /\ sv_transform \in SaveTransforms
    /\ sv_min \in {0, DefaultMinPixelvalueForSave}
    /\ sv_eval \in BOOLEAN
    /\ sv_before \in {EmptyDir, MakeDir(EmptyDir)}
    /\ sv_fs = sv_before
    /\ sv_result = Raise("not called")

SaveCall ==
    /\ sv_pc = "call"
    /\ LET r == CleanAndSaveToDir(sv_fs, EvalStem, sv_transform, sv_pred,
                     sv_classes,
                     Truth(FALSE, FALSE, Filled("uint8", 2, 1, 1, <<0>>)),
                     RunBorder, sv_min, sv_eval)
       IN  /\ sv_result' = r.result
           /\ sv_fs' = r.fs
    /\ sv_pc' = "returned"
    /\ UNCHANGED <<driverVars, cleanVars, multiVars, tileVars, dissVars,
                   pointVars, evalVars, wrapVars, sv_pred, sv_classes, sv_transform,
                   sv_min, sv_eval, sv_before>>

\* one value everywhere, or black and one value in turn
SegmentPalettes(dtype) ==
    {<<v>> : v \in PixelVals(dtype)} \cup {<<0, v>> : v \in PixelVals(dtype)}

\* the predictions given to save_prediction_uint8 of segment.py: square,
\* float32 or not, of two or three dimensions, of one channel or two
SegmentArrays ==
    LET one == UNION {{Filled(dt, nd, d, d, pal) : pal \in SegmentPalettes(dt)} :
                         <<dt, nd, d>> \in {"float32", "uint8"} \X {2, 3}
                                              \X (1 .. MaxEvalDim)}
    IN  one \cup {TwoChannels(a) : a \in {v \in one : v.ndim = 3}}

\* save_prediction_uint8 of segment.py, writing {stem}_pred.tif
SegmentSaveCall ==
    /\ sv_pc = "call"
    /\ \E image_pred_arr \in SegmentArrays, border_pixels_to_ignore \in 0 .. 1 :
           LET r == segment_save_prediction_uint8(sv_fs,
                        FileName(NoPrefix, EvalStem, "", "_pred"),
                        image_pred_arr, border_pixels_to_ignore)
           IN  /\ sv_result' = r.result
               /\ sv_fs' = r.fs
    /\ sv_pc' = "saved"
    /\ UNCHANGED <<driverVars, cleanVars, multiVars, tileVars, dissVars,
                   pointVars, evalVars, wrapVars, sv_pred, sv_classes, sv_transform,
                   sv_min, sv_eval, sv_before>>

SaveNext == SaveCall \/ SegmentSaveCall

SpecSave == SaveInit /\ [][SaveNext]_vars

\* ------------------------------------------------------------------------
\* A call of polygonize_pred in which a statement fails
\* ------------------------------------------------------------------------
\* the callers: polygonize_pred called with the output_basefilepath of the
\* tile or with none, or called by polygonize_pred_multiclass
WrapCallers == {"direct", "multiclass", "from_file"}

\* the pixels of a prediction raster: black, the values below and at the
\* threshold of to_binary_uint8, white
FilePixelVals == {0, PolygonizeThreshold - 1, PolygonizeThreshold, White}

\* the bands read from the raster files: uint8, or another dtype
FileBands ==
    {Filled(dt, 2, d, d, pal) :
        dt \in {"uint8", "float32"}, d \in 1 .. MaxEvalDim,
        pal \in UNION {[1 .. n -> FilePixelVals] : n \in 1 .. MaxPalette}}

WrapInit ==
    /\ DriverOff
    /\ CleanOff
    /\ MultiOff
    /\ TileOff
    /\ DissOff
    /\ PointOff
    /\ EvalOff
    /\ SaveOff
    /\ wr_pc = "call"
    /\ wr_caller \in WrapCallers
    /\ wr_simplify \in BOOLEAN
    /\ wr_failure \in FailureStages \cup {"none", "rio.open"}
    /\ \/ /\ wr_caller = "direct"
          /\ wr_failure # "rio.open"
          /\ wr_mask \in UNION {BinaryMasks(d) : d \in 1 .. MaxEvalDim}
          /\ wr_path \in {"None", EvalStem}
          /\ wr_pred = Prediction(1, 1, <<>>)
          /\ wr_channel = 0
          /\ wr_min = 0
       \/ /\ wr_caller = "multiclass"
          /\ wr_failure # "rio.open"
          /\ wr_simplify => wr_failure = "simplify"
          /\ wr_pred \in SavePredictions
          /\ wr_channel \in 0 .. Len(wr_pred.chans) - 1
          /\ wr_min \in {0, DefaultMinPixelvalueForSave}
          /\ wr_mask = Filled("uint8", 2, 1, 1, <<0>>)
          /\ wr_path = "None"
       \/ /\ wr_caller = "from_file"
          /\ ~wr_simplify
          /\ wr_mask \in FileBands
          /\ wr_path \in {"None", EvalStem}
          /\ wr_pred = Prediction(1, 1, <<>>)
          /\ wr_channel = 0
          /\ wr_min = 0
    /\ wr_result = Raise("not called")
    /\ wr_fs = NoVectorFiles

WrapCallDirect ==
    /\ wr_pc = "call"
    /\ wr_caller = "direct"
    /\ \E o \in polygonize_pred_try(wr_fs, wr_mask, "EPSG:31370",
                      MultiTransform, EvalClass, wr_path, wr_simplify,
                      RunBorder, wr_failure) :
           /\ wr_result' = o.result
           /\ wr_fs' = o.fs
    /\ wr_pc' = "returned"
    /\ UNCHANGED <<driverVars, cleanVars, multiVars, tileVars, dissVars,
                   pointVars, evalVars, saveVars, wr_caller, wr_mask, wr_pred,
                   wr_path, wr_simplify, wr_failure, wr_channel, wr_min>>

WrapCallMulticlass ==
    /\ wr_pc = "call"
    /\ wr_caller = "multiclass"
    /\ wr_result' \in polygonize_pred_multiclass_try(wr_pred, "EPSG:31370",
                           MultiTransform, wr_min, PolyClasses, RunBorder,
                           wr_simplify, wr_channel, wr_failure)
    /\ wr_pc' = "returned"
    /\ UNCHANGED <<driverVars, cleanVars, multiVars, tileVars, dissVars,
                   pointVars, evalVars, saveVars, wr_caller, wr_mask, wr_pred,
                   wr_path, wr_simplify, wr_failure, wr_channel, wr_min, wr_fs>>

\* polygonize_pred_from_file on the raster {wr_path}.tif, or on x.tif
\* without save_to_file
WrapCallFromFile ==
    /\ wr_pc = "call"
    /\ wr_caller = "from_file"
    /\ \E o \in polygonize_pred_from_file(wr_fs,
                      RasterFile(wr_failure # "rio.open", "EPSG:31370",
                                 MultiTransform, wr_mask),
                      EvalStem, RunBorder, wr_path # "None", wr_failure) :
           /\ wr_result' = o.result
           /\ wr_fs' = o.fs
    /\ wr_pc' = "returned"
    /\ UNCHANGED <<driverVars, cleanVars, multiVars, tileVars, dissVars,
                   pointVars, evalVars, saveVars, wr_caller, wr_mask, wr_pred,
                   wr_path, wr_simplify, wr_failure, wr_channel, wr_min>>

WrapNext == WrapCallDirect \/ WrapCallMulticlass \/ WrapCallFromFile

SpecWrap == WrapInit /\ [][WrapNext]_vars

\* ------------------------------------------------------------------------
\* Properties
\* ------------------------------------------------------------------------
Range(s) == {s[k] : k \in DOMAIN s}

RECURSIVE Flatten(_)
Flatten(ss) == IF ss = <<>> THEN <<>> ELSE Head(ss) \o Flatten(Tail(ss))

IsPrefix(s, t) == Len(s) <= Len(t) /\ \A k \in DOMAIN s : s[k] = t[k]

\* number of occurrences of x in the sequence s
Count(s, x) == Cardinality({k \in DOMAIN s : s[k] = x})

\* the ledger l holds a line with the basename of tile t
Listed(t, l) == \E k \in DOMAIN l : l[k] = Line(Basename(t))

\* the tiles the run has to skip: force is false and the ledger listed them
\* when the run started
SkippedAtStart(t) == force = FALSE /\ Listed(t, ledger_at_start)

Discovered == Range(image_filepaths_sorted)

NonSkippedSorted ==
    SelectSeq(image_filepaths_sorted, LAMBDA t : ~SkippedAtStart(t))

InferredTiles == Flatten(inference_calls)

PostprocessedTiles == [k \in DOMAIN postprocessed |-> postprocessed[k].tile]

\* C1: in a run with force = false, a tile whose basename the ledger listed
\* when the run started is never in a batch passed to predict_on_batch and
\* is never post-processed.
C1_Resumability ==
    (run >= 1 /\ force = FALSE) =>
        \A t \in Discovered :
            Listed(t, ledger_at_start) =>
                /\ t \notin Range(InferredTiles)
                /\ t \notin Range(PostprocessedTiles)

\* a finished run that skipped a listed tile and processed another one
C1_Witness ==
    /\ pc = "done"
    /\ force = FALSE
    /\ \E t \in Discovered : Listed(t, ledger_at_start)
    /\ Len(InferredTiles) >= 1
    /\ Len(appended) >= 1

\* C2: when predict ends without error, every discovered tile that was not
\* skipped has been passed to inference exactly once and has its line in
\* the ledger, and the batch accumulator is empty.
C2_Completeness ==
    pc = "done" =>
        /\ \A t \in Discovered :
               ~SkippedAtStart(t) =>
                   /\ Count(InferredTiles, t) = 1
                   /\ t \in Range(appended)
                   /\ Listed(t, ledger)
        /\ curr_batch_image_infos = <<>>

\* C3: whatever the state of the run, also one in which it stops in the
\* middle of a batch, every line this run appended to the ledger names a
\* tile that was read, predicted and post-processed before.
C3_LedgerAfterSuccess ==
    /\ Len(appended) <= Len(postprocessed)
    /\ \A k \in DOMAIN appended :
           /\ appended[k] = postprocessed[k].tile
           /\ appended[k] \in Range(InferredTiles)
    /\ ledger = ledger_at_start
                    \o [k \in DOMAIN appended |-> Line(Basename(appended[k]))]

\* a run that failed in the middle of a batch, after a tile of it was logged
C3_Witness ==
    /\ pc = "failed"
    /\ error.stage = "postprocess"
    /\ j >= 1
    /\ Len(appended) >= 1
    /\ Len(postprocessed) = Len(appended)

\* C4: a run with force = false that follows a run with force = false
\* which ended without error calls the model for nothing, post-processes
\* and writes nothing and leaves the ledger as it was.
C4_Idempotent ==
    (/\ prev.ran
     /\ prev.outcome = "done"
     /\ prev.force = FALSE
     /\ force = FALSE) =>
        /\ inference_calls = <<>>
        /\ postprocessed = <<>>
        /\ raster_writes = {}
        /\ vector_writes = {}
        /\ appended = <<>>
        /\ ledger = ledger_at_start

\* C5: an exception raised by read_image, predict_on_batch or
\* postprocess_prediction ends the run with that error; neither the failing
\* tile nor a tile after it in sorted order is appended or predicted later,
\* and the tiles of the batch that were post-processed before it are in the
\* ledger.
C5_FailureAborts ==
    /\ error # NoError => pc = "failed"
    /\ pc = "failed" =>
          /\ error.stage \in {"read", "predict", "postprocess"}
          /\ \A t \in Discovered :
                 (t = error.tile \/ PathLess(error.tile, t)) =>
                     t \notin Range(appended)
          /\ \A t \in Discovered :
                 (PathLess(error.tile, t)
                  /\ t \notin {curr_batch_image_infos[k].input_image_filepath :
                                  k \in DOMAIN curr_batch_image_infos}) =>
                     t \notin Range(InferredTiles)
          /\ error.stage \in {"read", "predict"} =>
                 error.tile \notin Range(InferredTiles)
          /\ error.stage = "postprocess" =>
                 \A k \in 1 .. j :
                     /\ curr_batch_image_infos_ext[k].input_image_filepath
                            \in Range(appended)
                     /\ Listed(curr_batch_image_infos_ext[k].input_image_filepath,
                               ledger)

\* post-processing failed on the second tile of a batch, with a tile left
C5_Witness ==
    /\ pc = "failed"
    /\ error.stage = "postprocess"
    /\ j >= 1
    /\ \E t \in Discovered : PathLess(error.tile, t)

\* C6: the ledger only grows at its end: every step leaves the old content
\* as a prefix, and a step of a run that logs a tile adds exactly one line,
\* the basename of that tile.
C6_AppendOnly ==
    [][/\ IsPrefix(ledger, ledger')
       /\ run' # run => ledger' = ledger
       /\ run' = run =>
             /\ Len(ledger') - Len(ledger) = Len(appended') - Len(appended)
             /\ Len(ledger') # Len(ledger) =>
                   /\ Len(ledger') = Len(ledger) + 1
                   /\ ledger'[Len(ledger')] =
                          Line(Basename(appended'[Len(appended')]))]_vars

\* a later run with force = true appended a second line for the same tile
C6_Witness ==
    /\ run >= 2
    /\ force = TRUE
    /\ Len(appended) >= 1
    /\ Len(ledger_at_start) >= 1
    /\ \E k, m \in DOMAIN ledger : k < m /\ ledger[k] = ledger[m]

\* the cleaned binary mask of channel c of a prediction of a run
CleanedChannel(pred, c) ==
    clean_prediction(ChannelSlice(pred, c), RunBorder, "binary").val

\* the channels clean_and_save_prediction considers: not the background
SavedChannels(pred) == IF Len(pred.chans) > 1 THEN 1 .. Len(pred.chans) - 1 ELSE {0}

\* no pixel >= 127 in the cleaned masks of the channels chs
BlackIn(pred, chs) ==
    \A c \in chs : ~AnyAtLeast(CleanedChannel(pred, c), BinaryThreshold)

RastersOf(t) == {w \in raster_writes : w.tile = t}

FeaturesOf(t) == {w \in vector_writes : w.tile = t}

DoneInBatch == IF pc = "log" THEN j + 1 ELSE IF pc = "post" THEN j ELSE 0

\* C8: the tiles that are not skipped, in sorted order, are cut into
\* consecutive batches of 1 .. batch_size tiles, each passed to the model
\* once; at the end of the run every such tile was in a batch; tile k of a
\* batch is post-processed with prediction k of the call.
C8_BatchingDiscipline ==
    /\ \A k \in DOMAIN inference_calls :
           Len(inference_calls[k]) \in 1 .. batch_size
    /\ IsPrefix(InferredTiles, NonSkippedSorted)
    /\ pc = "done" => InferredTiles = NonSkippedSorted
    /\ \A k \in 1 .. DoneInBatch :
           postprocessed[Len(postprocessed) - DoneInBatch + k] =
               [tile |-> curr_batch_image_infos_ext[k].input_image_filepath,
                pred |-> curr_batch_image_pred_arr[k]]

\* ---- clean_prediction ---------------------------------------------------
\* C9: with output_color_depth = 'binary', clean_prediction returns a uint8
\* array whose values are all 0 or 255, for float32 and uint8 input and
\* every border width.
C9_BinaryValues ==
    (cl_pc = "returned" /\ cl_depth = "binary") =>
        /\ cl_result.ok
        /\ cl_result.val.dtype = "uint8"
        /\ DOMAIN cl_result.val.px = Indices(cl_input)
        /\ \A idx \in Indices(cl_input) : cl_result.val.px[idx] \in {0, 255}

\* a float32 input with a pixel just below and a pixel at the threshold
C9_Witness ==
    /\ cl_pc = "returned"
    /\ cl_depth = "binary"
    /\ cl_input.dtype = "float32"
    /\ cl_border = 0
    /\ \E p, q \in Indices(cl_input) :
           /\ cl_input.px[p] = 254 /\ cl_result.val.px[p] = 0
           /\ cl_input.px[q] = 255 /\ cl_result.val.px[q] = 255

\* the uint8 value of an input pixel, and its value in the given colour depth
ConvertedValue(dtype, v) == IF dtype = "float32" THEN (v * 255) \div FloatGrid ELSE v

ExpectedValue(dtype, depth, v) ==
    IF depth = "binary"
    THEN (IF ConvertedValue(dtype, v) >= 127 THEN 255 ELSE 0)
    ELSE ConvertedValue(dtype, v)

\* the pixel is in one of the b outer rows or columns
InMargin(idx, b, dim0, dim1) ==
    \/ idx[1] < b
    \/ idx[1] >= dim0 - b
    \/ idx[2] < b
    \/ idx[2] >= dim1 - b

\* C10: for b > 0 the b outer rows and columns of the returned mask are 0
\* and every other pixel has its converted (and thresholded) value; for
\* b = 0 every pixel has it.
C10_BorderBlanking ==
    cl_pc = "returned" =>
        /\ cl_result.ok
        /\ \A idx \in Indices(cl_input) :
               cl_result.val.px[idx] =
                   IF cl_border > 0
                      /\ InMargin(idx, cl_border, cl_input.dim0, cl_input.dim1)
                   THEN 0
                   ELSE ExpectedValue(cl_input.dtype, cl_depth, cl_input.px[idx])

\* a 3 x 3 array, b = 1: a blanked border pixel and a kept centre pixel
C10_Witness ==
    /\ cl_pc = "returned"
    /\ cl_border = 1
    /\ cl_input.dim0 = 3
    /\ cl_input.dim1 = 3
    /\ cl_result.val.px[<<1, 1>>] # 0
    /\ cl_input.px[<<0, 0>>] # 0
    /\ cl_result.val.px[<<0, 0>>] = 0

\* ---- clean_prediction: frame, errors, conversion ----------------------------
\* C11: clean_prediction is pure: after the call the array passed in has the
\* content it had before, for float32 and uint8 input, both colour depths,
\* with and without border blanking. (A channel slice is a view of the
\* multi-channel array: what is written into the slice is written into it.)
C11_Pure ==
    cl_pc = "returned" => cl_after = cl_input

\* C12: clean_prediction raises, and returns no mask, exactly when the dtype
\* is neither float32 nor uint8, or the array is 3-D with more than one
\* channel, or output_color_depth is neither 'binary' nor 'full'.
C12_InvalidInput ==
    cl_pc = "returned" =>
        /\ ~cl_result.ok <=>
               \/ cl_input.dtype \notin {"float32", "uint8"}
               \/ cl_input.ndim = 3 /\ cl_input.nch > 1
               \/ cl_depth \notin {"binary", "full"}
        /\ ~cl_result.ok => DOMAIN cl_result = {"ok", "err"}
        /\ cl_result.ok => DOMAIN cl_result = {"ok", "val"}

\* a float32 array with two channels, a supported colour depth: refused
C12_Witness ==
    /\ cl_pc = "returned"
    /\ cl_input.dtype = "float32"
    /\ cl_input.nch = 2
    /\ cl_depth = "full"
    /\ ~cl_result.ok
    /\ cl_result.err = "Invalid input, should be one channel!"

\* the integers nearest to num / den (two of them for a tie)
Nearest(num, den) ==
    {q \in {num \div den, (num \div den) + 1} :
        2 * (IF q * den >= num THEN q * den - num ELSE num - q * den) <= den}

\* C13: a float32 value v is converted to round(v * 255); in binary mode the
\* pixel is 255 exactly when round(v * 255) >= 127 and 0 otherwise.
C13_RoundedConversion ==
    (cl_pc = "returned" /\ cl_input.dtype = "float32" /\ cl_border = 0) =>
        \A idx \in Indices(cl_input) :
            LET rounded == Nearest(cl_input.px[idx] * Scale255, FloatGrid)
            IN  IF cl_depth = "full"
                THEN cl_result.val.px[idx] \in rounded
                ELSE cl_result.val.px[idx] \in
                         {IF q >= BinaryThreshold THEN White ELSE 0 : q \in rounded}

\* ---- polygonize_pred_multiclass ----------------------------------------------
MultiChannels == 0 .. Len(mc_pred.chans) - 1

\* the cleaned binary mask of channel c of the prediction of the call
MultiCleaned(c) ==
    clean_prediction(ChannelSlice(mc_pred, c), mc_border, "binary").val

\* channel c has a pixel >= 127 in its cleaned mask
HasSignal(c) == AnyAtLeast(MultiCleaned(c), BinaryThreshold)

\* the channel a class name stands for
ClassIndex(name) ==
    CHOOSE c \in 0 .. Len(PolyClasses) - 1 : PolyClasses[c + 1] = name

RECURSIVE SumArea(_)
SumArea(features) ==
    IF features = <<>> THEN 0
    ELSE Head(features).area + SumArea(Tail(features))

\* the call returned a feature collection
MultiReturned == mc_pc = "returned" /\ mc_result.ok

\* C14: the features come in the order of the channels 0 .. num_classes - 1;
\* each feature carries the class name of the channel whose mask holds its
\* pixels; a channel without a pixel >= 127 gives no feature; when one
\* channel only has such pixels, the result holds its polygons only and
\* their areas add up to its number of foreground pixels times the pixel
\* area.
C14_ClassTagging ==
    MultiReturned =>
        LET fs == mc_result.val.features
        IN  /\ \A k \in DOMAIN fs :
                   /\ fs[k].classname \in Range(PolyClasses)
                   /\ fs[k].cells # {}
                   /\ fs[k].cells \subseteq
                          Foreground(MultiCleaned(ClassIndex(fs[k].classname)))
            /\ \A k, m \in DOMAIN fs :
                   k < m => ClassIndex(fs[k].classname) <= ClassIndex(fs[m].classname)
            /\ \A c \in MultiChannels :
                   ~HasSignal(c) =>
                       \A k \in DOMAIN fs : fs[k].classname # PolyClasses[c + 1]
            /\ \A c \in MultiChannels :
                   (HasSignal(c) /\ \A o \in MultiChannels \ {c} : ~HasSignal(o)) =>
                       /\ fs # <<>>
                       /\ \A k \in DOMAIN fs : fs[k].classname = PolyClasses[c + 1]
                       /\ SumArea(fs) =
                              Cardinality(Foreground(MultiCleaned(c)))
                                  * PixelArea(MultiTransform)

\* only the last channel has pixels >= 127, in two separate regions
C14_Witness ==
    /\ MultiReturned
    /\ HasSignal(2) /\ ~HasSignal(0) /\ ~HasSignal(1)
    /\ Len(mc_result.val.features) = 2
    /\ mc_result.val.features[1].classname = "road"

\* the features polygonize_pred_multiclass has to get from channel c
ChannelFeatures(c) ==
    IF mc_min > 0 /\ ~AnyAtLeast(MultiCleaned(c), mc_min)
    THEN <<>>
    ELSE polygonize_pred(to_binary_uint8(MultiCleaned(c), PolygonizeThreshold).val,
                         mc_crs, MultiTransform, PolyClasses[c + 1]).features

RECURSIVE FeaturesFrom(_)
FeaturesFrom(c) ==
    IF c \notin MultiChannels THEN <<>>
    ELSE ChannelFeatures(c) \o FeaturesFrom(c + 1)

\* C15: polygonize_pred_multiclass returns 'no result' exactly when every
\* channel was skipped or polygonized to nothing; otherwise the collection
\* holds the features of all channels in channel order, none lost, none
\* twice.
C15_Accumulation ==
    MultiReturned =>
        /\ mc_result.val = NoResult <=>
               \A c \in MultiChannels : ChannelFeatures(c) = <<>>
        /\ mc_result.val.features = FeaturesFrom(0)

\* two channels with features: both are in the result
C15_Witness ==
    /\ MultiReturned
    /\ ChannelFeatures(0) # <<>>
    /\ ChannelFeatures(1) = <<>>
    /\ ChannelFeatures(2) # <<>>
    /\ Len(mc_result.val.features) =
           Len(ChannelFeatures(0)) + Len(ChannelFeatures(2))

\* C16: when a channel yields features and the CRS is missing, the call
\* fails with the missing-CRS error, whichever channel it is; a returned
\* collection has a CRS, the one of the first channel with features.
C16_MissingCrs ==
    mc_pc = "returned" =>
        /\ (mc_crs = "None" /\ \E c \in MultiChannels : ChannelFeatures(c) # <<>>) =>
               /\ ~mc_result.ok
               /\ mc_result.err = "STOP: input does not have a crs!"
        /\ (mc_result.ok /\ mc_result.val # NoResult) =>
               /\ mc_result.val.crs # "None"
               /\ mc_result.val.crs = mc_crs
        /\ ~mc_result.ok => mc_crs = "None"

\* no CRS and features in the last channel only: the call fails
C16_Witness ==
    /\ mc_pc = "returned"
    /\ mc_crs = "None"
    /\ ChannelFeatures(0) = <<>>
    /\ ChannelFeatures(1) = <<>>
    /\ ChannelFeatures(2) # <<>>
    /\ ~mc_result.ok

\* ---- polygonize_pred -----------------------------------------------------------
\* the mask of the call holds the value v only
TileAll(v) == \A idx \in Indices(tp_mask) : tp_mask.px[idx] = v

\* C17: for a mask of all 255 polygonize_pred without simplification
\* returns one polygon, its area the number of rows times the number of
\* columns times the pixel area; for a mask without a nonzero pixel it
\* returns 'no result'.
C17_RoundTrip ==
    tp_pc = "returned" =>
        /\ TileAll(White) =>
               /\ tp_result # NoResult
               /\ Len(tp_result.features) = 1
               /\ tp_result.features[1].area =
                      tp_mask.dim0 * tp_mask.dim1 * PixelArea(tp_transform)
        /\ TileAll(0) => tp_result = NoResult

\* a 2 x 3 mask of all 255 with pixels of 2 x 3 units: one polygon of area 36
C17_Witness ==
    /\ tp_pc = "returned"
    /\ TileAll(White)
    /\ tp_mask.dim0 = 2
    /\ tp_mask.dim1 = 3
    /\ tp_transform = Transform(2, -3, 10, 20)
    /\ Len(tp_result.features) = 1
    /\ tp_result.features[1].area = 36

\* The projected extent of the raster, dim0 rows and dim1 columns, shrunk
\* by b pixels on each side: <<west, south, east, north>>.
TrueBorderBounds(a, transform, b) ==
    LET x_pixel_size == transform.a
        y_pixel_size == -transform.e
    IN  <<transform.c + b * x_pixel_size,
          transform.f - a.dim0 * y_pixel_size + b * y_pixel_size,
          transform.c + a.dim1 * x_pixel_size - b * x_pixel_size,
          transform.f - b * y_pixel_size>>

\* C18: a vertex of an unsimplified polygon that lies on the border-bounds
\* rectangle of the tile is a vertex of the simplified polygon.
C18_BorderPreserved ==
    tp_pc = "simplified" =>
        \A k \in DOMAIN TileVertices :
            \A v \in TileVertices[k] :
                OnBox(v, TrueBorderBounds(tp_mask, tp_transform, tp_border)) =>
                    v \in tp_simplified[k]

\* C19: border_bounds is the projected extent of the raster (columns *
\* x_pixel_size wide, rows * y_pixel_size high from the origin of the
\* transform) shrunk by b * x_pixel_size left and right and by
\* b * y_pixel_size at the bottom and the top.
C19_BorderBounds ==
    (tp_pc \in {"returned", "simplified"} /\ tp_result # NoResult) =>
        tp_bounds = TrueBorderBounds(tp_mask, tp_transform, tp_border)

\* ---- postprocess_predictions ------------------------------------------------------
\* two polygons touch along an edge or overlap
Touching(f, g) ==
    \/ f.cells \cap g.cells # {}
    \/ \E p \in f.cells, q \in g.cells : Adjacent4(p, q)

\* two polygons touch or overlap inside one tile, or anywhere when the
\* dissolve is not clipped on tiles
TouchingInTile(f, g) ==
    IF ds_tiles = NoTiles THEN Touching(f, g)
    ELSE \E tile \in ds_tiles.tiles :
             Touching([cells |-> f.cells \cap tile], [cells |-> g.cells \cap tile])

\* the call wrote the dissolved layer
Dissolved == ds_pc = "returned" /\ ds_result.ok /\ ds_result.val.written

\* C20: with a classname column no feature of the dissolved layer is built
\* from polygons of two classnames, touching or overlapping or not, and
\* touching polygons of one classname are in one feature; without the
\* column touching polygons are in one feature whatever they are. With
\* dissolve_tiles_path the polygons are merged inside each tile.
C20_DissolveGrouping ==
    Dissolved =>
        LET fs == ds_input.features
            out == ds_result.val.features
        IN  /\ \A k \in DOMAIN fs : \E o \in out : k \in o.sources
            /\ "classname" \in ds_input.columns =>
                   /\ \A o \in out : \A k \in o.sources :
                          fs[k].classname = o.classname
                   /\ \A k, m \in DOMAIN fs :
                          (TouchingInTile(fs[k], fs[m])
                           /\ fs[k].classname = fs[m].classname) =>
                              \E o \in out : {k, m} \subseteq o.sources
            /\ "classname" \notin ds_input.columns =>
                   \A k, m \in DOMAIN fs :
                       TouchingInTile(fs[k], fs[m]) =>
                           \E o \in out : {k, m} \subseteq o.sources

\* an overlapping panel and road polygon end up in two features
C20_Witness ==
    /\ Dissolved
    /\ Len(ds_input.features) = 2
    /\ ds_input.features[1].classname = "panel"
    /\ ds_input.features[2].classname = "road"
    /\ ds_input.features[1].cells \cap ds_input.features[2].cells # {}
    /\ Cardinality(ds_result.val.features) = 2

\* ---- postprocess_predictions, the output file -----------------------------
\* C21: a call with dissolve=true and force=false that finds the dissolved
\* output file makes no removal and no write of that file and leaves its
\* content as it was.
C21_Idempotent ==
    (ds_pc = "returned" /\ ds_dissolve /\ ~ds_force /\ ds_before.exists) =>
        /\ ds_ops = <<>>
        /\ ds_output = ds_before

\* ---- numberpoints -----------------------------------------------------------
\* C22: nbcoords of a polygon is the number of coordinates of its exterior
\* ring plus those of each interior ring, of a multi-polygon the sum of that
\* over its parts; for any other geometry type the computation fails.
C22_Nbcoords ==
    pt_pc = "returned" =>
        IF pt_geometry.geom_type \in {"Polygon", "MultiPolygon"}
        THEN /\ pt_result.ok
             /\ pt_result.val =
                    Cardinality({t \in (DOMAIN pt_geometry.parts) \X (0 .. MaxInteriors) \X RingPositions :
                        LET q == pt_geometry.parts[t[1]]
                        IN  IF t[2] = 0
                            THEN t[3] \in DOMAIN q.exterior
                            ELSE /\ t[2] \in DOMAIN q.interiors
                                 /\ t[3] \in DOMAIN q.interiors[t[2]]})
        ELSE ~pt_result.ok

\* a multi-polygon of two parts, the second with two interior rings
C22_Witness ==
    /\ pt_pc = "returned"
    /\ pt_geometry.geom_type = "MultiPolygon"
    /\ Len(pt_geometry.parts) = 2
    /\ Len(pt_geometry.parts[2].interiors) = 2
    /\ pt_result.ok
    /\ pt_result.val >= 17

\* ---- postprocess_for_evaluation ---------------------------------------------
\* C23: a file that exists in the evaluation output directory under a name
\* the call targets (the copy of the image, the moved prediction raster,
\* the ground-truth mask) keeps its content.
C23_NoOverwrite ==
    (ev_pc = "returned" /\ ev_result.ok) =>
        \A n \in DOMAIN ev_before.files :
            n.prefix.set =>
                /\ n \in DOMAIN ev_fs.files
                /\ ev_fs.files[n] = ev_before.files[n]

\* the thousandths of num / den, rounded to the nearest
Thousandths(num, den) == (2000 * num + den) \div (2 * den)

\* the white pixels of the prediction
WhitePixels(a) == Cardinality({idx \in DOMAIN a.px : a.px[idx] = White})

\* the prefixes of the files the call put into the directory
UsedPrefixes ==
    {n.prefix : n \in {f \in DOMAIN ev_fs.files \ DOMAIN ev_before.files :
                           f.prefix.set}}

\* C24: without ground truth the prefix of a saved binary prediction with w
\* white pixels out of n is (n - w) / n with 3 decimals, between 0 and 1,
\* for 0 < w <= n, and the sentinel 1.001 exactly when w = 0.
C24_BlackFraction ==
    (ev_pc = "returned" /\ ~ev_truth.dir /\ ev_saved) =>
        \A q \in UsedPrefixes :
            LET n == Size(ev_pred)
                w == WhitePixels(ev_pred)
            IN  /\ w = 0 <=> q.milli = AllBlackPrefix
                /\ w > 0 =>
                       /\ q.milli = Thousandths(n - w, n)
                       /\ q.milli >= 0
                       /\ q.milli <= 1000

\* ---- clean_and_save_prediction on an output directory -----------------------
\* the channels of the call whose raster is to be saved, in the order of
\* the loop
ToSave ==
    LET n == Len(sv_pred.chans)
    IN  {c \in (IF n > 1 THEN 1 ELSE 0) .. n - 1 :
            \/ sv_min = 0
            \/ sv_eval
            \/ \E idx \in DOMAIN sv_pred.chans[c + 1] :
                   AsUint8(sv_pred.chans[c + 1][idx]) >= BinaryThreshold}

\* the first of them
FirstToSave == CHOOSE c \in ToSave : \A d \in ToSave : c <= d

\* C25: when a raster is to be written for a tile whose transform is
\* missing or has x-scale 0, the call fails with the geotransform error
\* (save_prediction_uint8 is reached when the channel has a class name),
\* the output directory is not created and holds no raster of the tile
\* afterwards.
C25_MissingGeotransform ==
    (sv_pc = "returned" /\ ToSave # {}
        /\ (sv_transform = NoTransform \/ sv_transform.a = 0)) =>
        /\ ~sv_result.ok
        /\ FirstToSave + 1 \in DOMAIN sv_classes =>
               sv_result.err = "No transform found"
        /\ sv_fs = sv_before
        /\ DOMAIN sv_fs.files = {}

\* a transform with x-scale 0, a channel with white pixels, a directory
\* that does not exist: the call failed with the geotransform error
C25_Witness ==
    /\ sv_pc = "returned"
    /\ sv_transform # NoTransform
    /\ sv_transform.a = 0
    /\ sv_min = DefaultMinPixelvalueForSave
    /\ ~sv_eval
    /\ ToSave # {}
    /\ ~sv_before.dir
    /\ ~sv_result.ok
    /\ sv_result.err = "No transform found"

\* the name of the raster of channel c
RasterName(c) == FileName(NoPrefix, EvalStem, sv_classes[c + 1], "_pred")

\* C27: with n > 1 channels channel 0 is never saved and channels 1..n-1
\* are considered, with n = 1 channel 0 is; each saved channel c is written
\* to exactly one file, {tile_stem}_{class_names[c]}_pred.tif; the call
\* fails, and writes nothing under another name, when a channel to save
\* has no class name at its index.
C27_RasterPerClass ==
    sv_pc = "returned" =>
        /\ (\E c \in ToSave : c + 1 \notin DOMAIN sv_classes) => ~sv_result.ok
        /\ sv_result.ok =>
               LET saved == sv_result.val
               IN  /\ {saved[k].channel : k \in DOMAIN saved} = ToSave
                   /\ Len(saved) = Cardinality(ToSave)
                   /\ \A k \in DOMAIN saved :
                          /\ saved[k].classname = sv_classes[saved[k].channel + 1]
                          /\ saved[k].name = RasterName(saved[k].channel)
                   /\ ~sv_eval =>
                          DOMAIN sv_fs.files = {RasterName(c) : c \in ToSave}
        /\ \A n \in DOMAIN sv_fs.files :
               \E c \in ToSave :
                   /\ c + 1 \in DOMAIN sv_classes
                   /\ n.stem = EvalStem
                   /\ n.suffix = sv_classes[c + 1]

\* two channels, the panel channel is saved as x_panel_pred.tif
C27_Witness ==
    /\ sv_pc = "returned"
    /\ sv_result.ok
    /\ ~sv_eval
    /\ Len(sv_pred.chans) = 2
    /\ sv_min = DefaultMinPixelvalueForSave
    /\ DOMAIN sv_fs.files = {FileName(NoPrefix, EvalStem, "panel", "_pred")}

\* ---- clean_prediction, the shape of the result -------------------------------
\* C26: for a single-channel input of shape (w, h, 1) or (w, h), float32 or
\* uint8, the mask returned is 2-D, of shape (w, h).
C26_ShapeNormalised ==
    (cl_pc = "returned" /\ cl_result.ok /\ cl_input.nch = 1) =>
        /\ cl_result.val.ndim = 2
        /\ cl_result.val.dim0 = cl_input.dim0
        /\ cl_result.val.dim1 = cl_input.dim1

\* ---- polygonize_pred, failures -----------------------------------------------
\* the mask polygonize_pred is given in the call observed
WrapMask ==
    IF wr_caller = "direct"
    THEN wr_mask
    ELSE [dim0 |-> wr_pred.dim0, dim1 |-> wr_pred.dim1,
          px |-> [idx \in DOMAIN wr_pred.chans[wr_channel + 1] |->
                     IF AsUint8(wr_pred.chans[wr_channel + 1][idx]) >= BinaryThreshold
                     THEN White ELSE 0]]

\* the statement named by wr_failure was executed and failed: the tracing
\* always is, the others when the mask has a white pixel (and a
\* simplification is asked for, or has to leave a polygon, or a path is
\* given); polygonize_pred_multiclass does not call polygonize_pred for a
\* channel it skips
FailureHappened ==
    /\ wr_pc = "returned"
    /\ wr_caller \in {"direct", "multiclass"}
    /\ wr_failure \in FailureStages
    /\ wr_failure = "to_file" => wr_path # "None"
    /\ wr_caller = "multiclass" =>
           (wr_min = 0 \/ \E idx \in DOMAIN WrapMask.px : WrapMask.px[idx] = White)
    /\ wr_failure # "shapes" =>
           \E idx \in DOMAIN WrapMask.px : WrapMask.px[idx] = White
    /\ wr_failure = "simplify" => wr_simplify
    /\ (wr_simplify /\ wr_failure \in {"attributes", "to_file"}) =>
           \E region \in Range(Regions(Foreground(WrapMask))) :
               \E v \in Vertices(region, WrapMask.dim0, WrapMask.dim1,
                                 MultiTransform) :
                   OnBox(v, BorderBounds(WrapMask, MultiTransform, RunBorder))

\* C28: a failure raised inside polygonize_pred, from either caller, is
\* re-raised as a polygonization error that names the tile and keeps the
\* failure as its cause; it is not swallowed nor turned into "no result".
C28_ErrorWrapping ==
    FailureHappened =>
        /\ ~wr_result.ok
        /\ wr_result.err = "Exception while polygonizing to file"
        /\ wr_result.cause = wr_failure
        /\ wr_result.file = EvalStem

\* ---- predict, the skips ------------------------------------------------------
\* the tiles the loop of the run has skipped so far
SkippedSoFar ==
    {image_filepaths_sorted[k] : k \in {m \in 1 .. nb_files : m <= i}}
        \cap {t \in Discovered : Skipped(t)}

\* C29: in runs with force = false that start from an empty ledger, a tile
\* is skipped only if that tile, with the same input path, was fully
\* post-processed (its line appended) in an earlier run, also when tiles of
\* different subdirectories share a basename and when runs abort.
C29_SkipSameTile ==
    (pc \notin {"idle", "off"} /\ prev.found = <<>>) =>
        \A t \in SkippedSoFar : t \in prev.done

\* ---- polygonize_pred_multiclass: the short-circuit ---------------------------
\* the pixels of channel c that are part of a polygon of the result
Polygonized(c) ==
    UNION {mc_result.val.features[k].cells :
              k \in {m \in DOMAIN mc_result.val.features :
                         mc_result.val.features[m].classname = PolyClasses[c + 1]}}

\* C30: polygonize_pred_multiclass returns the same for every
\* min_pixelvalue_for_save in 0 .. 255 as without the short-circuit (value
\* 0); the mask handed to polygonize_pred is the cleaned binary mask of the
\* channel, to_binary_uint8 with threshold 125 leaving it as it is; a pixel
\* is polygonized exactly when its value in the cleaned mask is >= 127, that
\* is when its uint8 value is >= 127 and it is outside the blanked frame.
C30_ShortCircuitNeutral ==
    mc_pc = "returned" =>
        /\ mc_result = polygonize_pred_multiclass(mc_pred, mc_crs, MultiTransform,
                                                  0, PolyClasses, mc_border)
        /\ \A c \in MultiChannels :
               /\ to_binary_uint8(MultiCleaned(c), PolygonizeThreshold)
                      = Return(MultiCleaned(c))
               /\ mc_result.ok =>
                      \A idx \in Indices(MultiCleaned(c)) :
                          /\ idx \in Polygonized(c)
                                 <=> MultiCleaned(c).px[idx] >= BinaryThreshold
                          /\ idx \in Polygonized(c)
                                 <=> /\ AsUint8(mc_pred.chans[c + 1][idx])
                                            >= BinaryThreshold
                                     /\ ~InMargin(idx, mc_border,
                                                  mc_pred.dim0, mc_pred.dim1)

\* min_pixelvalue_for_save 255: channel 0 holds 126 at most and is skipped,
\* channel 1 has a pixel of 126 next to one of 127 and gets one polygon of
\* one pixel
C30_Witness ==
    /\ mc_pc = "returned"
    /\ mc_result.ok
    /\ mc_min = White
    /\ mc_border = 0
    /\ ~HasSignal(0)
    /\ \E idx \in DOMAIN mc_pred.chans[1] :
           AsUint8(mc_pred.chans[1][idx]) = BinaryThreshold - 1
    /\ \E idx \in DOMAIN mc_pred.chans[2] :
           AsUint8(mc_pred.chans[2][idx]) = BinaryThreshold - 1
    /\ Cardinality(Polygonized(1)) = 1
    /\ Len(mc_result.val.features) = 1

====
